---- MODULE Spec2Model ----
(***************************************************************************)
(* Turn orchestrator, layered memory and session pool of robot-hong.       *)
(*                                                                         *)
(* Texts (message contents, drafts, event titles, follow-up items, emotion *)
(* types) are modelled by natural numbers: EmptyStr is the empty string,   *)
(* every positive number is a distinct non-empty text.  None is Python's   *)
(* None.  Floats that the code only stores and compares are scaled to      *)
(* integers (intensity in tenths, trust_level in hundredths).              *)
(***************************************************************************)
EXTENDS Integers, Sequences, FiniteSets, TLC

None == -1
EmptyStr == 0

\* Python truthiness of an Optional[str]: None and "" are falsy.
Truthy(x) == x /= None /\ x /= EmptyStr

\* Python s[-n:] for n > 0.
LastN(s, n) == IF Len(s) <= n THEN s ELSE SubSeq(s, Len(s) - n + 1, Len(s))

\* Python s[:n].
FirstN(s, n) == IF Len(s) <= n THEN s ELSE SubSeq(s, 1, n)

\* Python "x in list".
InSeq(x, s) == \E i \in 1..Len(s) : s[i] = x

Min(a, b) == IF a <= b THEN a ELSE b

(***************************************************************************)
(* WorkingContext (src/src/agent/context.py)                               *)
(***************************************************************************)
MAX_RECENT_EVENTS == 10
MAX_EMOTION_HISTORY == 20
MAX_FOLLOW_UPS == 5

\* trust_level 0.5 and the 0.95 ceiling, in hundredths.
TRUST_INITIAL == 50
TRUST_MAX == 95

\* user_info: the keys "name" and "age" (None: the key is absent).
NoUserInfo == [name |-> None, age |-> None]

\* A freshly constructed WorkingContext (the dataclass defaults).  The
\* "timestamp" of an emotion_history entry is not modelled.
WorkingContext ==
    [ user_name         |-> None,
      user_info         |-> NoUserInfo,
      current_emotion   |-> None,
      emotion_intensity |-> 0,
      emotion_history   |-> << >>,
      recent_events     |-> << >>,
      follow_ups        |-> << >>,
      trust_level       |-> TRUST_INITIAL,
      interaction_count |-> 0 ]

\* set_user_info(name=..., age=...): each argument counts when it is truthy.
set_user_info(c, name, age) ==
    LET named == IF Truthy(name)
                 THEN [c EXCEPT !.user_name = name, !.user_info.name = name]
                 ELSE c
    IN IF Truthy(age) THEN [named EXCEPT !.user_info.age = age] ELSE named

\* The slice that enforces a cap: keep the newest `cap` entries.
Evict_KeepOldest(s, cap) == FirstN(s, cap)
Evict(s, cap) == IF Len(s) > cap THEN LastN(s, cap) ELSE s

update_emotion(c, emotion_type, intensity) ==
    LET pushed == IF Truthy(c.current_emotion)
                  THEN Evict(Append(c.emotion_history,
                                    [type |-> c.current_emotion,
                                     intensity |-> c.emotion_intensity]),
                             MAX_EMOTION_HISTORY)
                  ELSE c.emotion_history
    IN [c EXCEPT !.emotion_history = pushed,
                 !.current_emotion = emotion_type,
                 !.emotion_intensity = intensity]

\* add_recent_event, and the method without its `not in` test.
add_recent_event_Always(c, event) ==
    [c EXCEPT !.recent_events = Evict(Append(c.recent_events, event), MAX_RECENT_EVENTS)]
add_recent_event(c, event) ==
    LET appended == IF InSeq(event, c.recent_events)
                    THEN c.recent_events
                    ELSE Append(c.recent_events, event)
    IN [c EXCEPT !.recent_events = Evict(appended, MAX_RECENT_EVENTS)]

add_follow_up(c, item) ==
    LET appended == IF InSeq(item, c.follow_ups)
                    THEN c.follow_ups
                    ELSE Append(c.follow_ups, item)
    IN [c EXCEPT !.follow_ups = Evict(appended, MAX_FOLLOW_UPS)]

increment_interaction_NoCap(c) ==
    [c EXCEPT !.interaction_count = @ + 1, !.trust_level = @ + 1]
increment_interaction(c) ==
    [c EXCEPT !.interaction_count = @ + 1,
              !.trust_level = IF @ < TRUST_MAX THEN Min(TRUST_MAX, @ + 1) ELSE @]

\* to_dict: the fields by name (preferences is not modelled).
to_dict(c) ==
    [ user_name         |-> c.user_name,
      user_info         |-> c.user_info,
      current_emotion   |-> c.current_emotion,
      emotion_intensity |-> c.emotion_intensity,
      emotion_history   |-> c.emotion_history,
      recent_events     |-> c.recent_events,
      follow_ups        |-> c.follow_ups,
      trust_level       |-> c.trust_level,
      interaction_count |-> c.interaction_count ]

\* load_from_dict: every field is overwritten from the dict.
load_from_dict(c, data) ==
    [c EXCEPT !.user_name         = data.user_name,
              !.user_info         = data.user_info,
              !.current_emotion   = data.current_emotion,
              !.emotion_intensity = data.emotion_intensity,
              !.emotion_history   = data.emotion_history,
              !.recent_events     = data.recent_events,
              !.follow_ups        = data.follow_ups,
              !.trust_level       = data.trust_level,
              !.interaction_count = data.interaction_count]

(***************************************************************************)
(* Repository / Database (src/src/storage)                                 *)
(*                                                                         *)
(* A table is the sequence of its rows in rowid order.  created_at is the  *)
(* store's clock (CURRENT_TIMESTAMP, one-second resolution) at the insert. *)
(***************************************************************************)
\* The tables of an empty, initialised database.
Database ==
    [ users            |-> << >>,
      messages         |-> << >>,
      working_contexts |-> << >>,
      life_events      |-> << >>,
      emotion_records  |-> << >>,
      now              |-> 0 ]

\* INSERT INTO messages (...)
Repository_save_message_Lost(db, user_id, role, content) == db
Repository_save_message(db, user_id, role, content) ==
    [db EXCEPT !.messages = Append(@, [user_id |-> user_id, role |-> role,
                                       content |-> content, created_at |-> db.now])]

\* The rowids selected by WHERE user_id = ?
RowsOf(table, user_id) == {i \in 1..Len(table) : table[i].user_id = user_id}

\* ORDER BY created_at DESC, rowid DESC: row i comes before row j.
Before_Ascending(table, i, j) ==
    \/ table[i].created_at < table[j].created_at
    \/ table[i].created_at = table[j].created_at /\ i < j
Before(table, i, j) ==
    \/ table[i].created_at > table[j].created_at
    \/ table[i].created_at = table[j].created_at /\ i > j

\* The row of `ids` that comes before every other one; the candidates are
\* tried from the last row of the table back to the first.
FirstOf(table, ids) ==
    LET n == Len(table)
        k == CHOOSE k \in 1..n :
                 /\ (n + 1 - k) \in ids
                 /\ \A j \in ids : j = n + 1 - k \/ Before(table, n + 1 - k, j)
    IN n + 1 - k

\* ORDER BY ... LIMIT ?: the first `limit` of the rows `ids` of `table` in
\* query order.
RECURSIVE Ordered(_, _, _)
Ordered(table, ids, limit) ==
    IF ids = {} \/ limit = 0 THEN << >>
    ELSE LET first == FirstOf(table, ids)
         IN << table[first] >> \o Ordered(table, ids \ {first}, limit - 1)

\* WHERE user_id = ? in place of no filter at all.
MessageRowsOf_AnyUser(db, user_id) == 1..Len(db.messages)
MessageRowsOf(db, user_id) == RowsOf(db.messages, user_id)

\* SELECT * FROM messages WHERE user_id = ? ORDER BY ... LIMIT ?
Repository_get_recent_messages(db, user_id, limit) ==
    Ordered(db.messages, MessageRowsOf(db, user_id), limit)

\* A text contains a keyword: texts are numbers whose last digit is the one
\* keyword they contain.
Contains(content, query) == content % 10 = query

\* search_messages: the rows matching the query, of this user only (the FTS
\* query and its LIKE fallback filter alike); rank order is not modelled, the
\* rows come in rowid order.
Repository_search_messages(db, user_id, query, limit) ==
    LET hits == {i \in MessageRowsOf(db, user_id) : Contains(db.messages[i].content, query)}
    IN FirstN(SelectSeq([i \in 1..Len(db.messages) |-> [row |-> db.messages[i], hit |-> i \in hits]],
                        LAMBDA r : r.hit), limit)

\* INSERT INTO emotion_records (...)
Repository_save_emotion_record(db, user_id, emotion_type, intensity) ==
    [db EXCEPT !.emotion_records = Append(@, [user_id |-> user_id, emotion_type |-> emotion_type,
                                              intensity |-> intensity, created_at |-> db.now])]

\* INSERT INTO life_events (...)
Repository_save_life_event(db, user_id, title) ==
    [db EXCEPT !.life_events = Append(@, [user_id |-> user_id, title |-> title,
                                          created_at |-> db.now])]

\* update_user_profile: UPDATE users SET profile_data = ? WHERE id = ?.  The row
\* itself is made by get_or_create_user when a session is initialised; the
\* table holds the rows whose profile_data has been written.
Repository_update_user_profile(db, user_id, profile_data) ==
    LET t == db.users
        row == [user_id |-> user_id, profile_data |-> profile_data]
    IN [db EXCEPT !.users =
            IF RowsOf(t, user_id) = {} THEN Append(t, row)
            ELSE [i \in 1..Len(t) |-> IF t[i].user_id = user_id THEN row ELSE t[i]]]

\* get_user: the row's profile_data, when one has been written.
Repository_get_user(db, user_id) ==
    LET rows == RowsOf(db.users, user_id)
    IN IF rows = {} THEN [found |-> FALSE, profile_data |-> NoUserInfo]
       ELSE [found |-> TRUE, profile_data |-> db.users[CHOOSE i \in rows : TRUE].profile_data]

\* save_working_context: UPDATE ... WHERE user_id = ?, INSERT when no row was
\* updated; and the method with the INSERT alone.
Repository_save_working_context_Insert(db, user_id, content) ==
    [db EXCEPT !.working_contexts = Append(@, [user_id |-> user_id, content |-> content])]
Repository_save_working_context(db, user_id, content) ==
    LET t == db.working_contexts
        row == [user_id |-> user_id, content |-> content]
    IN [db EXCEPT !.working_contexts =
            IF RowsOf(t, user_id) = {} THEN Append(t, row)
            ELSE [i \in 1..Len(t) |-> IF t[i].user_id = user_id THEN row ELSE t[i]]]

(***************************************************************************)
(* MemoryManager (src/src/agent/memory.py)                                 *)
(***************************************************************************)
MAX_QUEUE_SIZE == 10

\* deque(maxlen=MAX_QUEUE_SIZE).append
DequeAppend_Unbounded(q, x) == Append(q, x)
DequeAppend(q, x) == LastN(Append(q, x), MAX_QUEUE_SIZE)

\* Python reversed(list)
Reversed(s) == [i \in 1..Len(s) |-> s[Len(s) + 1 - i]]

RECURSIVE AppendAll(_, _)
AppendAll(q, msgs) ==
    IF msgs = << >> THEN q
    ELSE AppendAll(DequeAppend(q, [role |-> Head(msgs).role, content |-> Head(msgs).content]),
                   Tail(msgs))

\* A constructed MemoryManager (__init__): its own WorkingContext and queue.
MemoryManager(user_id) ==
    [ user_id         |-> user_id,
      working_context |-> WorkingContext,
      queue           |-> << >> ]

\* The slot of a session that has not been constructed.
NoMemory == MemoryManager("")

\* _load_recent_history: the newest MAX_QUEUE_SIZE stored messages, oldest
\* first; and the method without reversed().
load_recent_history_NewestFirst(m, db) ==
    [m EXCEPT !.queue =
        AppendAll(@, Repository_get_recent_messages(db, m.user_id, MAX_QUEUE_SIZE))]
load_recent_history(m, db) ==
    [m EXCEPT !.queue =
        AppendAll(@, Reversed(Repository_get_recent_messages(db, m.user_id, MAX_QUEUE_SIZE)))]

\* add_to_queue
add_to_queue(m, message) == [m EXCEPT !.queue = DequeAppend(@, message)]

\* save_message: queue first, then the store, then the interaction count.
\* `ok` is whether the INSERT succeeded; when it raises, the queue already
\* holds the message and nothing else has happened.
save_message(m, db, role, content, ok) ==
    LET queued == add_to_queue(m, [role |-> role, content |-> content])
    IN IF ~ok THEN [mem |-> queued, db |-> db, raised |-> TRUE]
       ELSE [mem |-> IF role = "user"
                     THEN [queued EXCEPT !.working_context = increment_interaction(@)]
                     ELSE queued,
             db |-> Repository_save_message(db, m.user_id, role, content),
             raised |-> FALSE]

\* save_emotion: the WorkingContext first, then the INSERT (ok: it succeeded).
save_emotion(m, db, emotion_type, intensity, ok) ==
    LET m1 == [m EXCEPT !.working_context = update_emotion(@, emotion_type, intensity)]
    IN IF ~ok THEN [mem |-> m1, db |-> db, raised |-> TRUE]
       ELSE [mem |-> m1,
             db |-> Repository_save_emotion_record(db, m.user_id, emotion_type, intensity),
             raised |-> FALSE]

\* save_life_event: the WorkingContext first, then the INSERT.
save_life_event(m, db, title, ok) ==
    LET m1 == [m EXCEPT !.working_context = add_recent_event(@, title)]
    IN IF ~ok THEN [mem |-> m1, db |-> db, raised |-> TRUE]
       ELSE [mem |-> m1, db |-> Repository_save_life_event(db, m.user_id, title),
             raised |-> FALSE]

\* save_working_context (to_dict, then the upsert)
save_working_context(m, db) ==
    Repository_save_working_context(db, m.user_id, to_dict(m.working_context))

\* load_working_context, step 2: the name and the other fields of the users
\* row's profile_data, each when it is truthy.
LoadProfile(c, profile) ==
    LET named == IF Truthy(profile.name) THEN set_user_info(c, profile.name, None) ELSE c
    IN IF Truthy(profile.age) THEN [named EXCEPT !.user_info.age = profile.age] ELSE named

\* get_working_context: the content of the user's row, or None (not found).
Repository_get_working_context(db, user_id) ==
    LET rows == RowsOf(db.working_contexts, user_id)
    IN IF rows = {} THEN [found |-> FALSE, content |-> to_dict(WorkingContext)]
       ELSE [found |-> TRUE, content |-> db.working_contexts[CHOOSE i \in rows : TRUE].content]

\* load_working_context: the stored dict, when the user has one; then, when
\* the user name is still empty, the users row's profile_data.
load_working_context(m, db) ==
    LET data == Repository_get_working_context(db, m.user_id)
        loaded == IF ~data.found THEN m
                  ELSE [m EXCEPT !.working_context = load_from_dict(@, data.content)]
        user == Repository_get_user(db, m.user_id)
    IN IF Truthy(loaded.working_context.user_name) \/ ~user.found THEN loaded
       ELSE [loaded EXCEPT !.working_context = LoadProfile(@, user.profile_data)]

\* init: the working context, then the recent history.
init(m, db) == load_recent_history(load_working_context(m, db), db)

\* close: save_working_context (end_session and the connection are not modelled).
close(m, db) == save_working_context(m, db)

\* update_user_profile(field, value): the WorkingContext first, then the users
\* row, then the working_contexts row (ok: the store took the writes).
MemoryManager_update_user_profile(m, db, field, value, ok) ==
    LET m1 == [m EXCEPT !.working_context =
                  IF field = "name" THEN set_user_info(@, value, None)
                  ELSE [@ EXCEPT !.user_info.age = value]]
    IN IF ~ok THEN [mem |-> m1, db |-> db, raised |-> TRUE]
       ELSE [mem |-> m1,
             db |-> save_working_context(m1,
                        Repository_update_user_profile(db, m.user_id, m1.working_context.user_info)),
             raised |-> FALSE]

\* update_user_profile(field="name", value): set_user_info(name=value) when the
\* value is truthy, then the users row and the working_contexts row are written.
update_user_profile(m, db, value, ok) ==
    MemoryManager_update_user_profile(m, db, "name", value, ok)

(***************************************************************************)
(* The agents (src/src/agent/agents).  The language model is opaque: each  *)
(* call either raises or returns a reply drawn from a small set.           *)
(***************************************************************************)
\* Draft texts: "" and three non-empty ones, of which text 2 contains a
\* forbidden pattern ("1.") and text 3 is longer than 200 characters.
DraftTexts == {EmptyStr, 1, 2, 3}
HasForbiddenPattern(text) == text = 2
TextLen(text) == CASE text = EmptyStr -> 0 [] text = 3 -> 201 [] OTHER -> 20

\* ReviewAgent._quick_check, and the check without its length rule.
quick_check_AnyLength(response) == ~HasForbiddenPattern(response)
quick_check(response) == ~HasForbiddenPattern(response) /\ ~(TextLen(response) > 200)

\* What the reviewer's JSON may hold.  {} (also the result after every parse
\* attempt failed) is the reply with every field missing.
ReviewReplies ==
    [ approved   : {"true", "false", "missing"},
      score_kind : {"missing", "number", "other"},
      score      : {4, 6, 8},
      suggestion : {None, 7} ]

\* The score < 6 rule of _validate_result, and the rule left out.
ForceReject_Never(score) == FALSE
ForceReject(score) == score < 6

\* ReviewAgent._validate_result
validate_result(reply, ai_response) ==
    LET approved0 == IF reply.approved = "missing" THEN quick_check(ai_response)
                     ELSE reply.approved = "true"
        score == CASE reply.score_kind = "missing" -> (IF approved0 THEN 7 ELSE 5)
                   [] reply.score_kind = "other"   -> 5
                   [] OTHER                        -> reply.score
    IN [ approved   |-> IF ForceReject(score) THEN FALSE ELSE approved0,
         score      |-> score,
         suggestion |-> IF reply.suggestion = None THEN EmptyStr ELSE reply.suggestion ]

\* What the emotion classifier's JSON may hold; "empty" is {}.
EmotionReplies ==
    [ kind         : {"empty"}, emotion_type : {None}, has_type : {FALSE}, intensity : {5} ]
    \cup [ kind : {"object"}, has_type : BOOLEAN, emotion_type : {EmptyStr, 2},
           intensity : {15} ]

\* EmotionAgent.run after the model call: _get_default_result / _validate_result.
\* Emotion type 1 is the default type, intensities are in tenths.
EmotionAgent_run(reply) ==
    IF reply.kind = "empty"
    THEN [emotion_type |-> 1, intensity |-> 3]
    ELSE [emotion_type |-> IF reply.has_type THEN reply.emotion_type ELSE 1,
          intensity    |-> IF reply.intensity > 10 THEN 10 ELSE reply.intensity]

\* The save_actions lists the save agent's JSON may hold.
SaveAction(type, value) == [type |-> type, value |-> value]
SaveReplies ==
    { << >>,
      << SaveAction("follow_up", 1) >>,
      << SaveAction("emotion", 2), SaveAction("life_event", 5) >>,
      << SaveAction("user_profile", 6), SaveAction("unknown", 1) >>,
      << SaveAction("follow_up", 1), SaveAction("follow_up", EmptyStr),
         SaveAction("life_event", 5), SaveAction("follow_up", 3) >> }

\* MemorySaveAgent._execute_save_action; ok: the store write it makes succeeds.
execute_save_action(m, db, action, ok) ==
    CASE action.type = "user_profile" ->
            IF Truthy(action.value) THEN update_user_profile(m, db, action.value, ok)
            ELSE [mem |-> m, db |-> db, raised |-> FALSE]
      [] action.type = "life_event" -> save_life_event(m, db, action.value, ok)
      [] action.type = "emotion" -> save_emotion(m, db, action.value, 5, ok)
      [] action.type = "follow_up" ->
            [mem |-> IF Truthy(action.value)
                     THEN [m EXCEPT !.working_context = add_follow_up(@, action.value)]
                     ELSE m,
             db |-> db, raised |-> FALSE]
      [] OTHER -> [mem |-> m, db |-> db, raised |-> FALSE]

\* MemorySaveAgent.run after the model call: save_actions[:3], each applied under
\* its own try/except.  `failing` are the positions whose store write raises.
RECURSIVE run_save_actions(_, _, _, _, _)
run_save_actions(m, db, actions, failing, k) ==
    IF k > Len(FirstN(actions, 3)) THEN [mem |-> m, db |-> db]
    ELSE LET r == execute_save_action(m, db, actions[k], k \notin failing)
         IN run_save_actions(r.mem, r.db, actions, failing, k + 1)

(***************************************************************************)
(* The multi-agent graph (src/src/agent/multi_agent_graph.py)              *)
(***************************************************************************)
max_rewrites == 2

\* MultiAgentRunner.chat: initial_state
InitialState(user_message) ==
    [ user_input      |-> user_message,
      emotion_result  |-> [emotion_type |-> None, intensity |-> None],
      memory_context  |-> << >>,
      ai_response     |-> EmptyStr,
      review_approved |-> FALSE,
      review_feedback |-> EmptyStr,
      rewrite_count   |-> 0,
      final_response  |-> EmptyStr ]

\* The rewrite budget test of should_rewrite, and the test left out.
BudgetSpent_Never(st) == FALSE
BudgetSpent_OneLate(st) == st.rewrite_count > max_rewrites
BudgetSpent(st) == st.rewrite_count >= max_rewrites

\* should_rewrite: the conditional edge after "review"; and an edge that
\* sends an approved draft straight to "save".
should_rewrite_SkipFinalize(st) ==
    IF st.review_approved THEN "save"
    ELSE IF st.rewrite_count >= max_rewrites THEN "finalize"
    ELSE "increment_rewrite"
should_rewrite(st) ==
    IF st.review_approved THEN "finalize"
    ELSE IF BudgetSpent(st) THEN "finalize"
    ELSE "increment_rewrite"

\* response_node rewrites (ResponseAgent.rewrite) instead of drafting afresh.
IsRewrite(st) == st.rewrite_count > 0 /\ Truthy(st.ai_response)

\* finalize_node's value, and an earlier draft in its place.
FinalResponse_FirstDraft(st, produced) == produced[1]
FinalResponse(st, produced) == st.ai_response

(***************************************************************************)
(* Bounds of the model                                                     *)
(***************************************************************************)
\* Distinct event titles / follow-up items / emotion updates offered to one
\* WorkingContext: each exceeds its list's cap.
MaxTitles == 12
MaxItems == 7
MaxEmotions == 22
\* The first MaxBlank update_emotion calls may carry an empty emotion type.
MaxBlank == 1
\* Session objects ever constructed.
MaxInst == 2
\* Messages offered to one session's queue (more than MAX_QUEUE_SIZE), how
\* many of the first ones may reach the queue alone, and how far the store's
\* clock runs.
MaxMsgs == 12
MaxOff == 1
MaxClock == 2
\* Session operations run on two sessions side by side.
MaxOps == 4
\* Chunks the drafting model streams in one turn.
MaxChunks == 2
\* Times the background thread may enter save_agent.run.
MaxRuns == 2
\* Keywords of one emotion a text holds; its exclamation marks.
MaxMatches == 3
MaxExclamations == 3
\* Turns of the conversation a returning user has had before.
EarlierTurns == 40
\* Pool calls made by the threads together, where they are counted.
MaxCalls == 3

Users == {"u1", "u2"}
Instances == 1..MaxInst
Threads == {"t1", "t2", "t3"}
UserInputs == {11, 12}

(***************************************************************************)
(* State                                                                   *)
(***************************************************************************)
VARIABLES
    ctx,         \* a stand-alone WorkingContext
    evLog,       \* history: every title add_recent_event appended to ctx
    fuLog,       \* history: every item add_follow_up appended to ctx
    emoLog,      \* history: every entry update_emotion appended to ctx
    nTitles,     \* distinct titles offered to ctx so far
    nItems,      \* distinct follow-up items offered to ctx so far
    nEmotions,   \* update_emotion calls on ctx so far
    memory,      \* the MemoryManager of each session object
    db,          \* the database all sessions share
    pc,          \* the graph node about to run in the current turn
    state,       \* the turn's MultiAgentState
    runner,      \* the session object the turn runs on
    trace,       \* history: the nodes run in the current turn, in order
    produced,    \* history: the drafts produced in the current turn
    raised_in,   \* the node whose exception ended the turn
    all_rejected,\* history: every review reply so far was {approved: false, score: 4}
    save_arg,    \* history: the ai_response save_agent.run was called with
    returned,    \* the content chat() returned
    agents,      \* AgentPool._agents: the session object cached for each user id (0: none)
    lock,        \* AgentPool._lock: the thread holding it
    tpc,         \* each thread's position in the pool method it is running
    top,         \* each thread's current call: the method and its user_id
    tret,        \* the session object each thread's last get_agent returned (0: none, below 0: it raised)
    tloc,        \* close_all's loop: the user ids whose session it has closed so far
    inst,        \* every session object constructed so far
    nInst,       \* how many there are
    served,      \* history: the objects get_agent returned for a user id since its last eviction
    qLog,        \* history: every message appended to session 1's queue since it was constructed
    fresh,       \* session 1 was initialised and nothing has been pushed to its queue since
    nMsgs,       \* messages offered to session 1 so far
    nOff,        \* how many of them reached the queue but not the store
    actor,       \* the session object the last session operation ran on (0: none yet)
    lastRead,    \* the rows the last read or search returned, and the session it ran on
    nOps,        \* session operations run so far
    fan,         \* the fan-out call in progress: its executor's two futures and the caller's position
    stream,      \* the chat_stream generator: its position and its locals
    bg,          \* the thread async_save_memory started: its status and how often it ran the save agent
    writes,      \* history: every store write of the streaming turn, the thread that made it and when
    mutated_by,  \* history: the threads that changed session 1's working_context or queue
    strace,      \* history: the steps of the streaming turn, in order
    req,         \* a retrieval request: the queries, the search types, what each source holds, the source that fails
    search,      \* the retrieval in progress: its position, `results` so far, the text returned
    emo,         \* an EmotionAnalyzer.analyze call: its input, its position, what it returned
    pass,        \* a MemorySaveAgent.run call: the proposed actions, the loop's position, what happened to each
    ui,          \* what main.chat returned to the page for the turn
    jc,          \* a BaseAgent._call_llm_json call: its messages, its attempt, what it returned
    wc,          \* history: the content of the last save_working_context call for each user id
    rb,          \* an analyze_rule_based call: what the text holds, what it returned
    calls,       \* pool calls made so far, where they are counted
    single,      \* a single-agent chat_stream_final_only turn: its position, its loop counter, what it saved
    shut         \* history: the pool closed the streaming session; what close() flushed, the store writes until then

ctxVars == << ctx, evLog, fuLog, emoLog, nTitles, nItems, nEmotions >>
memVars == << memory, db >>
turnVars == << pc, state, runner, trace, produced, raised_in, all_rejected,
               save_arg, returned >>
poolVars == << agents, lock, tpc, top, tret, tloc, inst, nInst, served >>
winVars == << qLog, fresh, nMsgs, nOff >>
isoVars == << actor, lastRead, nOps >>
streamVars == << fan, stream, bg, writes, mutated_by, strace >>
retrVars == << req, search >>
lateVars == << jc, wc, rb, calls, single, shut >>
extVars == << emo, pass, ui, lateVars >>
vars == << ctxVars, memVars, turnVars, poolVars, winVars, isoVars, streamVars, retrVars,
          extVars >>

InitCtx ==
    /\ ctx = WorkingContext
    /\ evLog = << >>
    /\ fuLog = << >>
    /\ emoLog = << >>
    /\ nTitles = 0
    /\ nItems = 0
    /\ nEmotions = 0

InitTurnVars ==
    /\ pc = "idle"
    /\ state = InitialState(EmptyStr)
    /\ runner = 1
    /\ trace = << >>
    /\ produced = << >>
    /\ raised_in = "none"
    /\ all_rejected = TRUE
    /\ save_arg = None
    /\ returned = None

NoSession == [user_id |-> "", close_calls |-> 0, close_raised |-> FALSE]
NoCall == [kind |-> "none", user_id |-> ""]

\* AgentPool.__init__: no agents, the lock free; no thread inside the pool.
InitPoolVars ==
    /\ agents = [u \in Users |-> 0]
    /\ lock = "free"
    /\ tpc = [t \in Threads |-> "idle"]
    /\ top = [t \in Threads |-> NoCall]
    /\ tret = [t \in Threads |-> 0]
    /\ tloc = [t \in Threads |-> {}]
    /\ inst = [i \in Instances |-> NoSession]
    /\ nInst = 0
    /\ served = [u \in Users |-> {}]

InitWinVars ==
    /\ qLog = << >>
    /\ fresh = TRUE
    /\ nMsgs = 0
    /\ nOff = 0

InitIsoVars ==
    /\ actor = 0
    /\ lastRead = [by |-> 0, rows |-> << >>]
    /\ nOps = 0

MAX_RESULTS == 10
QUERY_CAP == 3
CONTEXT_CAP == 5

(***************************************************************************)
(* Retrieval (src/src/agent/agents/memory_agent.py: _execute_search;        *)
(* src/src/agent/memory.py: search_relevant_context).  A formatted hit is  *)
(* a number; hits of different sources carry different tags and are never  *)
(* equal.                                                                  *)
(***************************************************************************)
\* list(dict.fromkeys(seq)): the first occurrence of each entry, in order.
RECURSIVE Dedup(_)
Dedup_KeepAll(seq) == seq
Dedup(seq) ==
    IF seq = << >> THEN << >>
    ELSE LET front == Dedup(FirstN(seq, Len(seq) - 1))
             last == seq[Len(seq)]
         IN IF InSeq(last, front) THEN front ELSE Append(front, last)

\* What the store holds for the request, as the formatted hits each source
\* finds, in the order it finds them: the user's events whose title holds a
\* query (get_life_events, limit 10; two events may format alike), the events
\* whose embedding is similar to the query's (0.4 at least; their line carries
\* the similarity), the rows search_messages finds
\* for each of the first three queries (limit 3 each; a row may match
\* several queries), the rows the embedding search over the recent messages
\* picks (three at most), the emotion records (limit 5).
EventHits == << 1, 2, 2, 3, 4, 5, 6, 7, 8, 9 >>
EventVectorHits == << 11, 12 >>
MessageHits == << << 21, 22, 23 >>, << 22, 23, 24 >>, << 21, 24, 25 >> >>
VectorHits == << 26, 27, 27 >>
EmotionHits == << 31, 32, 31, 33, 31 >>
\* search_relevant_context: the first matching event of each keyword.
KeywordEventHits == << 41, 41, 42 >>

Sources == {"events", "messages", "emotions"}

RetrievalRequests ==
    [ mode   : {"agent", "heuristic"},
      nq     : {0, 2, 4},
      types  : SUBSET Sources,
      nE     : {0, 2, 8, 10},
      nM     : 0..3,
      nV     : {0, 3},
      nEV    : {0, 2},
      emb    : BOOLEAN,
      nEm    : {0, 5},
      fail   : {"none"} \cup Sources ]

\* if not search_types: search_types = ["messages"]
SearchTypes(r) == IF r.types = {} THEN {"messages"} ELSE r.types

\* The hits the keyword search finds for queries[:3] up to query k.
RECURSIVE KeywordMessageLines(_, _)
KeywordMessageLines(r, k) ==
    IF k = 0 THEN << >>
    ELSE KeywordMessageLines(r, k - 1) \o FirstN(MessageHits[k], r.nM)

\* embedding_service.get_embedding(combined_query) gives a vector (r.emb) or
\* None; the lines of the events, of the messages, similar to it.
SimilarEventLines(r) == IF r.emb THEN FirstN(EventVectorHits, r.nEV) ELSE << >>
SimilarMessageLines(r) == IF r.emb THEN FirstN(VectorHits, r.nV) ELSE << >>

\* What each source adds to `results` when it does not fail.  Events: the
\* similar ones, and the title matches when there is none.  Messages: the
\* keyword hits, and the similar ones when there is none.
EventLines(r) ==
    LET similar == SimilarEventLines(r)
    IN IF similar = << >> THEN FirstN(EventHits, r.nE) ELSE similar
MessageLines(r) ==
    LET keyword == KeywordMessageLines(r, Min(r.nq, QUERY_CAP))
    IN IF keyword = << >> THEN SimilarMessageLines(r) ELSE keyword
EmotionLines(r) == FirstN(EmotionHits, r.nEm)

NoSearch == [pc |-> "idle", results |-> << >>, output |-> << >>, header |-> FALSE]

InitRetrVars ==
    /\ req = [mode |-> "agent", nq |-> 0, types |-> {}, nE |-> 0, nM |-> 0, nV |-> 0,
              nEV |-> 0, emb |-> FALSE, nEm |-> 0, fail |-> "none"]
    /\ search = NoSearch

(***************************************************************************)
(* EmotionAnalyzer (src/src/emotion/analyzer.py).  Intensities and          *)
(* confidences are in thousandths before rounding, in hundredths after.    *)
(***************************************************************************)
\* The intensity_modifiers a text may hold (a selection of the table).
Modifiers ==
    { [word |-> "feichang", value |-> 200], [word |-> "tai", value |-> 150],
      [word |-> "youdian", value |-> -150], [word |-> "shaowei", value |-> -200] }

\* The whole intensity_modifiers table.
intensity_modifiers ==
    { [word |-> "feichang", value |-> 200], [word |-> "tebie", value |-> 200],
      [word |-> "chaoji", value |-> 250], [word |-> "jiqi", value |-> 250],
      [word |-> "tai", value |-> 150], [word |-> "zhende", value |-> 100],
      [word |-> "hao", value |-> 100], [word |-> "hen", value |-> 150],
      [word |-> "shifen", value |-> 200],
      [word |-> "youdian", value |-> -150], [word |-> "youxie", value |-> -100],
      [word |-> "shaowei", value |-> -200], [word |-> "lvewei", value |-> -150] }

RECURSIVE SumValues(_)
SumValues(S) ==
    IF S = {} THEN 0
    ELSE LET m == CHOOSE m \in S : TRUE IN m.value + SumValues(S \ {m})

Max(a, b) == IF a > b THEN a ELSE b

\* round(x, 2): a value halfway between two hundredths goes the way its
\* binary representation falls (half_up).
Round2(v, half_up) ==
    LET q == v \div 10
        r == v % 10
    IN IF r > 5 \/ (r = 5 /\ half_up) THEN q + 1 ELSE q

NoRuleResult == [found |-> FALSE, emotion_type |-> EmptyStr, intensity |-> 0, confidence |-> 0]

\* max(0.1, min(1.0, ...)), and the upper limit alone.
ClampIntensity_Upper(v) == Min(1000, v)
ClampIntensity(v) == Max(100, Min(1000, v))

\* analyze_rule_based: matches keywords of the best emotion found in the
\* text (each of two characters), the modifiers it holds, its exclamation marks.
analyze_rule_based(matches, mods, exclamations, half_up) ==
    IF matches = 0 THEN NoRuleResult
    ELSE LET best_score == matches * 1000 + matches * 2 * 50
             base_intensity == Min(400 + best_score \div 10, 900)
             intensity_modifier == SumValues(mods) + Min(exclamations * 50, 150)
             final_intensity == ClampIntensity(base_intensity + intensity_modifier)
             confidence == Min(400 + matches * 150 + intensity_modifier \div 2, 950)
         IN [found |-> TRUE, emotion_type |-> 2,
             intensity |-> Round2(final_intensity, half_up),
             confidence |-> Round2(confidence, half_up)]

\* analyze, after the rule pass: "rule" (return it), "llm" (call
\* _llm_analyze), "last" (return the rule result, or None).
Route_LowBelowHigh(rule, has_llm) ==
    CASE rule.found /\ rule.confidence >= 70 -> "rule"
      [] has_llm /\ (~rule.found \/ rule.confidence < 70) -> "llm"
      [] OTHER -> "last"
Route(rule, has_llm) ==
    CASE rule.found /\ rule.confidence >= 70 -> "rule"
      [] has_llm /\ (~rule.found \/ rule.confidence < 50) -> "llm"
      [] OTHER -> "last"

\* What the generator's reply may be: the call raises, empty content,
\* content that is not JSON, JSON that is falsy ({}), an object with the
\* result's fields (confidence given or not), a non-empty object without
\* emotion_type.
LlmEmotionReplies ==
    [kind : {"raises", "empty", "unparsable", "falsy", "partial"}, confidence : {None}]
        \cup [kind : {"object"}, confidence : {None, 60}]

\* except Exception: pass in _llm_analyze: the failures of the try block
\* that end in return None; and a handler for json.JSONDecodeError alone.
Swallowed_ParseOnly(kind) == kind = "unparsable"
Swallowed(kind) == kind \in {"raises", "unparsable"}

\* _llm_analyze: the parsed JSON, None for anything the try block gave up on.
LlmUsable(reply) == reply.kind \in {"object", "partial"}

\* The EmotionResult built from the rule result / from the generator's.
FromRule(rule) ==
    [source |-> "rule", emotion_type |-> rule.emotion_type, intensity |-> rule.intensity,
     confidence |-> rule.confidence]
FromLlm(reply) ==
    [source |-> "llm", emotion_type |-> 3, intensity |-> 60,
     confidence |-> IF reply.confidence = None THEN 80 ELSE reply.confidence]
NoResult == [source |-> "none", emotion_type |-> EmptyStr, intensity |-> 0, confidence |-> 0]

\* The last lines of analyze: the rule result when there is one, else None.
LastResort(rule) == IF rule.found THEN FromRule(rule) ELSE NoResult

AnalyzeInputs ==
    [ matches : 0..MaxMatches, mods : SUBSET Modifiers, exclamations : 0..MaxExclamations,
      half_up : BOOLEAN, has_llm : BOOLEAN ]

NoAnalysis ==
    [ pc |-> "idle", rule |-> NoRuleResult, called |-> 0,
      reply |-> [kind |-> "none", confidence |-> None], result |-> NoResult ]

\* No MemorySaveAgent.run call has been made (runs: how many have been).
NoPass == [pc |-> "idle", actions |-> << >>, k |-> 0, called |-> {}, raised |-> {}, runs |-> 0]

\* main.chat has not returned.
NoReply == [kind |-> "none", text |-> EmptyStr]

\* No _call_llm_json call has been made.
NoJsonCall == [pc |-> "idle", messages |-> << >>, attempt |-> 0, calls |-> 0,
               replies |-> << >>, sent |-> << >>, result |-> [kind |-> "none", value |-> "none"]]

\* No save_working_context call has been made for any user id.
NoSaves == [u \in Users |-> [found |-> FALSE, content |-> to_dict(WorkingContext)]]

\* No analyze_rule_based call has been made; the text is blank.
NoRuleCall ==
    [pc |-> "idle", result |-> NoRuleResult,
     input |-> [blank |-> TRUE, matches |-> 0, mods |-> {}, exclamations |-> 0,
                half_up |-> FALSE]]

\* No single-agent streaming turn has been started.
NoSingleTurn ==
    [pc |-> "idle", user_message |-> EmptyStr, iteration |-> 0, generations |-> 0,
     user_saved |-> FALSE, yielded |-> EmptyStr]

\* The pool has not closed the session.
NotShut == [closed |-> FALSE, flushed |-> to_dict(WorkingContext), nWrites |-> 0]

InitLateVars ==
    /\ jc = NoJsonCall
    /\ wc = NoSaves
    /\ rb = NoRuleCall
    /\ calls = 0
    /\ single = NoSingleTurn
    /\ shut = NotShut

InitExtVars ==
    /\ InitLateVars
    /\ pass = NoPass
    /\ ui = NoReply
    /\ emo = [input |-> [matches |-> 0, mods |-> {}, exclamations |-> 0, half_up |-> FALSE,
                         has_llm |-> FALSE]] @@ NoAnalysis

NoFuture == [status |-> "none", result |-> None]
NoFanOut == [kind |-> "none", pc |-> "out", emotion |-> NoFuture, memory |-> NoFuture]

\* No streaming turn, no fan-out call, no background thread yet.
InitStreamVars ==
    /\ fan = NoFanOut
    /\ stream = [pc |-> "idle", user_input |-> EmptyStr, emotion_result |-> None,
                 retrieved |-> EmptyStr, full_response |-> EmptyStr, chunks |-> 0]
    /\ bg = [status |-> "none", runs |-> 0, ai_response |-> None]
    /\ writes = << >>
    /\ mutated_by = {}
    /\ strace = << >>

\* Nothing constructed yet, an empty store.
Init ==
    /\ InitCtx
    /\ InitTurnVars
    /\ InitPoolVars
    /\ InitWinVars
    /\ InitIsoVars
    /\ InitStreamVars
    /\ InitRetrVars
    /\ InitExtVars
    /\ memory = [i \in Instances |-> NoMemory]
    /\ db = Database

(***************************************************************************)
(* WorkingContext operations, called directly                              *)
(***************************************************************************)
\* The titles offered to add_recent_event: a new one, the very first one
\* (present, or evicted by now), and the oldest one still in the list.
EventInputs ==
    {t \in {nTitles + 1} : t <= MaxTitles}
        \cup {t \in {1} : nTitles >= 1}
        \cup {ctx.recent_events[i] : i \in {j \in {1} : ctx.recent_events /= << >>}}

\* The items offered to add_follow_up, likewise.
FollowUpInputs ==
    {t \in {nItems + 1} : t <= MaxItems}
        \cup {t \in {1} : nItems >= 1}
        \cup {ctx.follow_ups[i] : i \in {j \in {1} : ctx.follow_ups /= << >>}}

\* add_recent_event(event)
CtxAddRecentEvent ==
    \E event \in EventInputs :
        /\ ctx' = add_recent_event(ctx, event)
        /\ evLog' = IF InSeq(event, ctx.recent_events) THEN evLog ELSE Append(evLog, event)
        /\ nTitles' = IF event > nTitles THEN event ELSE nTitles
        /\ UNCHANGED << fuLog, emoLog, nItems, nEmotions, memVars, turnVars, poolVars, winVars, isoVars, streamVars, extVars, retrVars >>

\* add_follow_up(item)
CtxAddFollowUp ==
    \E item \in FollowUpInputs :
        /\ ctx' = add_follow_up(ctx, item)
        /\ fuLog' = IF InSeq(item, ctx.follow_ups) THEN fuLog ELSE Append(fuLog, item)
        /\ nItems' = IF item > nItems THEN item ELSE nItems
        /\ UNCHANGED << evLog, emoLog, nTitles, nEmotions, memVars, turnVars, poolVars, winVars, isoVars, streamVars, extVars, retrVars >>

\* update_emotion(type, intensity): the k-th call carries type k, or the
\* empty type in one of the first MaxBlank calls.
CtxUpdateEmotion ==
    /\ nEmotions < MaxEmotions
    /\ \E blank \in BOOLEAN :
        /\ blank => nEmotions < MaxBlank
        /\ ctx' = update_emotion(ctx, IF blank THEN EmptyStr ELSE nEmotions + 1,
                                 1 + (nEmotions % 10))
    /\ emoLog' = IF Truthy(ctx.current_emotion)
                 THEN Append(emoLog, [type |-> ctx.current_emotion,
                                      intensity |-> ctx.emotion_intensity])
                 ELSE emoLog
    /\ nEmotions' = nEmotions + 1
    /\ UNCHANGED << evLog, fuLog, nTitles, nItems, memVars, turnVars, poolVars, winVars, isoVars, streamVars, extVars, retrVars >>

NextCtx == CtxAddRecentEvent \/ CtxAddFollowUp \/ CtxUpdateEmotion

SpecCtx == Init /\ [][NextCtx]_vars

(***************************************************************************)
(* One turn: MultiAgentRunner.chat running the compiled graph               *)
(***************************************************************************)
\* Session object 1 is a constructed MemoryManager of user "u1".
InitTurn ==
    /\ InitCtx
    /\ InitTurnVars
    /\ InitPoolVars
    /\ InitWinVars
    /\ InitIsoVars
    /\ InitStreamVars
    /\ InitRetrVars
    /\ InitExtVars
    /\ memory = [i \in Instances |-> IF i = 1 THEN MemoryManager("u1") ELSE NoMemory]
    /\ db = Database

\* An exception leaves the node: no node catches it, graph.invoke and chat
\* re-raise it.
Raise(node) ==
    /\ pc' = "raised"
    /\ raised_in' = node
    /\ trace' = Append(trace, node)

\* chat(user_message) builds the initial state and enters the graph.
StartTurn ==
    /\ pc = "idle"
    /\ stream.pc = "idle" /\ fan.kind = "none"
    /\ \E user_message \in UserInputs :
        state' = InitialState(user_message)
    /\ pc' = "emotion"
    /\ UNCHANGED << streamVars, extVars, retrVars, isoVars, winVars, poolVars, ctxVars, memVars, runner, trace, produced, raised_in,
                    all_rejected, save_arg, returned >>

\* emotion_node
emotion_node ==
    /\ pc = "emotion"
    /\ \/ /\ Raise("emotion")
          /\ UNCHANGED << memory, state >>
       \/ \E reply \in EmotionReplies :
            LET result == EmotionAgent_run(reply)
            IN /\ memory' = IF Truthy(result.emotion_type)
                            THEN [memory EXCEPT ![runner].working_context =
                                    update_emotion(@, result.emotion_type, result.intensity)]
                            ELSE memory
               /\ state' = [state EXCEPT !.emotion_result = result]
               /\ pc' = "memory"
               /\ trace' = Append(trace, "emotion")
               /\ UNCHANGED raised_in
    /\ UNCHANGED << streamVars, extVars, retrVars, isoVars, winVars, poolVars, ctxVars, db, runner, produced, all_rejected, save_arg, returned >>

\* memory_node: the retrieval agent either raises (its model call) or hands
\* back the retrieved text, "" when it did not search or the search failed.
\* The text get_context_for_llm prepends is not part of the model.
memory_node ==
    /\ pc = "memory"
    /\ \/ /\ Raise("memory")
          /\ UNCHANGED state
       \/ \E retrieved \in {EmptyStr, 9} :
            /\ state' = [state EXCEPT !.memory_context =
                            IF Truthy(retrieved) THEN << retrieved >> ELSE << >>]
            /\ pc' = "response"
            /\ trace' = Append(trace, "memory")
            /\ UNCHANGED raised_in
    /\ UNCHANGED << streamVars, extVars, retrVars, isoVars, winVars, poolVars, ctxVars, memVars, runner, produced, all_rejected, save_arg, returned >>

\* What the drafting model call hands back: the reply's "content" (None: null),
\* or a reply with no "content" key.
ResponseReplies ==
    [has_content : {TRUE}, content : DraftTexts \cup {None}]
        \cup [has_content : {FALSE}, content : {None}]

\* ResponseAgent.rewrite / ResponseAgent.run after the model call.  run logs
\* content[:50], which raises on None.
RunRaises(st, reply) == ~IsRewrite(st) /\ reply.has_content /\ reply.content = None

NewResponse(st, reply) ==
    IF IsRewrite(st)
    THEN (IF reply.has_content THEN reply.content ELSE st.ai_response)
    ELSE (IF reply.has_content THEN reply.content ELSE EmptyStr)

\* response_node: ResponseAgent.rewrite when this is a rewrite, ResponseAgent.run
\* otherwise.
response_node ==
    /\ pc = "response"
    /\ \/ /\ Raise("response")
          /\ UNCHANGED << state, produced >>
       \/ \E reply \in ResponseReplies :
            IF RunRaises(state, reply)
            THEN /\ Raise("response")
                 /\ UNCHANGED << state, produced >>
            ELSE /\ state' = [state EXCEPT !.ai_response = NewResponse(state, reply)]
                 /\ produced' = Append(produced, NewResponse(state, reply))
                 /\ pc' = "review"
                 /\ trace' = Append(trace, "response")
                 /\ UNCHANGED raised_in
    /\ UNCHANGED << streamVars, extVars, retrVars, isoVars, winVars, poolVars, ctxVars, memVars, runner, all_rejected, save_arg, returned >>

\* The reviewer that rejects with score 4.
IsReject4(reply) ==
    reply.approved = "false" /\ reply.score_kind = "number" /\ reply.score = 4

\* review_node, then the conditional edge should_rewrite.  A draft of None
\* makes ReviewAgent.run raise (ai_response[:50]).
review_node ==
    /\ pc = "review"
    /\ \/ /\ Raise("review")
          /\ UNCHANGED << state, all_rejected >>
       \/ /\ state.ai_response /= None
          /\ \E reply \in ReviewReplies :
               LET result == validate_result(reply, state.ai_response)
                   st == [state EXCEPT !.review_approved = result.approved,
                                       !.review_feedback = result.suggestion]
               IN /\ state' = st
                  /\ all_rejected' = (all_rejected /\ IsReject4(reply))
                  /\ pc' = should_rewrite(st)
                  /\ trace' = Append(trace, "review")
                  /\ UNCHANGED raised_in
    /\ UNCHANGED << streamVars, extVars, retrVars, isoVars, winVars, poolVars, ctxVars, memVars, runner, produced, save_arg, returned >>

\* increment_rewrite
increment_rewrite ==
    /\ pc = "increment_rewrite"
    /\ state' = [state EXCEPT !.rewrite_count = @ + 1]
    /\ pc' = "response"
    /\ trace' = Append(trace, "increment_rewrite")
    /\ UNCHANGED << streamVars, extVars, retrVars, isoVars, winVars, poolVars, ctxVars, memVars, runner, produced, raised_in, all_rejected,
                    save_arg, returned >>

\* finalize_node
finalize_node ==
    /\ pc = "finalize"
    /\ state' = [state EXCEPT !.final_response = FinalResponse(state, produced)]
    /\ pc' = "save"
    /\ trace' = Append(trace, "finalize")
    /\ UNCHANGED << streamVars, extVars, retrVars, isoVars, winVars, poolVars, ctxVars, memVars, runner, produced, raised_in, all_rejected,
                    save_arg, returned >>

\* save_node: the user message, the assistant message, then the save agent.
\* The turn is lost when the first INSERT raises, when the second does, or
\* when the save agent's model call does; `failing` are the save actions
\* whose store write raises (each is caught by MemorySaveAgent.run).
save_node ==
    /\ pc = "save"
    /\ LET r1 == save_message(memory[runner], db, "user", state.user_input, TRUE)
           r1x == save_message(memory[runner], db, "user", state.user_input, FALSE)
           r2 == save_message(r1.mem, r1.db, "assistant", state.final_response, TRUE)
           r2x == save_message(r1.mem, r1.db, "assistant", state.final_response, FALSE)
       IN \/ /\ Raise("save")
             /\ memory' = [memory EXCEPT ![runner] = r1x.mem]
             /\ db' = r1x.db
             /\ UNCHANGED save_arg
          \/ /\ Raise("save")
             /\ memory' = [memory EXCEPT ![runner] = r2x.mem]
             /\ db' = r2x.db
             /\ UNCHANGED save_arg
          \/ /\ Raise("save")
             /\ memory' = [memory EXCEPT ![runner] = r2.mem]
             /\ db' = r2.db
             /\ save_arg' = state.final_response
          \/ \E actions \in SaveReplies, failing \in SUBSET (1..3) :
               LET r3 == run_save_actions(r2.mem, r2.db, actions, failing, 1)
               IN /\ memory' = [memory EXCEPT ![runner] = r3.mem]
                  /\ db' = r3.db
                  /\ save_arg' = state.final_response
                  /\ pc' = "end"
                  /\ trace' = Append(trace, "save")
                  /\ UNCHANGED raised_in
    /\ UNCHANGED << streamVars, extVars, retrVars, isoVars, winVars, poolVars, ctxVars, state, runner, produced, all_rejected, returned >>

\* END: graph.invoke returns and chat hands back result["final_response"].
chat_return ==
    /\ pc = "end"
    /\ returned' = state.final_response
    /\ pc' = "done"
    /\ UNCHANGED << streamVars, extVars, retrVars, isoVars, winVars, poolVars, ctxVars, memVars, state, runner, trace, produced, raised_in,
                    all_rejected, save_arg >>

NextTurn ==
    \/ StartTurn
    \/ emotion_node
    \/ memory_node
    \/ response_node
    \/ review_node
    \/ increment_rewrite
    \/ finalize_node
    \/ save_node
    \/ chat_return

SpecTurn == InitTurn /\ [][NextTurn]_vars

\* Every node that can run does run: the graph is driven to its END.
FairSpecTurn == SpecTurn /\ WF_vars(NextTurn)

(***************************************************************************)
(* AgentPool (src/src/agent/agent_pool.py): threads calling get_agent,      *)
(* remove_agent and close_all.  Every method body runs under self._lock.    *)
(***************************************************************************)
\* threading.Lock can be taken; and a lock that never excludes anyone.
LockFree_Always(l) == TRUE
LockFree(l) == l = "free"

\* remove_agent after close(): del self._agents[user_id], whether or not close
\* raised; and a removal that keeps the entry when close raised.
AfterClose_KeepOnError(a, user_id, raised) ==
    IF raised THEN a ELSE [a EXCEPT ![user_id] = 0]
AfterClose(a, user_id, raised) == [a EXCEPT ![user_id] = 0]

\* self._agents[user_id] = self._create_agent(user_id) when _create_agent
\* raises: the assignment never runs.  And a pool that remembers the failure
\* under the user id (-1: a failed entry).
AfterCreateError_Cached(a, user_id) == [a EXCEPT ![user_id] = -1]
AfterCreateError(a, user_id) == a

\* What a thread is left with when its get_agent(user_id) raised: no
\* session, the exception (told apart by the user id it was for).
Raised(user_id) == IF user_id = "u1" THEN -1 ELSE -2

PoolCalls ==
    [kind : {"get", "remove"}, user_id : Users] \cup [kind : {"close_all"}, user_id : {""}]

\* Leaving the `with self._lock:` block, by return or by exception; and a
\* block that leaves the lock taken.
Release_KeepLock(t) ==
    /\ lock' = lock
    /\ tpc' = [tpc EXCEPT ![t] = "idle"]
    /\ top' = [top EXCEPT ![t] = NoCall]
Release(t) ==
    /\ lock' = IF lock = t THEN "free" ELSE lock
    /\ tpc' = [tpc EXCEPT ![t] = "idle"]
    /\ top' = [top EXCEPT ![t] = NoCall]

\* agent.close() on session object i: the call is counted; MemoryManager.close
\* saves the working context unless it raises first.
CloseSession(i, raises) ==
    /\ inst' = [inst EXCEPT ![i].close_calls = @ + 1,
                            ![i].close_raised = @ \/ raises]
    /\ db' = IF raises THEN db ELSE close(memory[i], db)

\* A thread calls a pool method and reaches `with self._lock`.
Call(t) ==
    /\ tpc[t] = "idle"
    /\ \E call \in PoolCalls : top' = [top EXCEPT ![t] = call]
    /\ tpc' = [tpc EXCEPT ![t] = "acquire"]
    /\ tret' = [tret EXCEPT ![t] = 0]
    /\ UNCHANGED << agents, lock, tloc, inst, nInst, served, memVars, ctxVars, turnVars, winVars, isoVars, streamVars, extVars, retrVars >>

\* self._lock.__enter__
Acquire(t) ==
    /\ tpc[t] = "acquire"
    /\ LockFree(lock)
    /\ lock' = t
    /\ tpc' = [tpc EXCEPT ![t] = CASE top[t].kind = "get"    -> "get_check"
                                   [] top[t].kind = "remove" -> "rm_check"
                                   [] top[t].kind = "count"  -> "count_return"
                                   [] OTHER                  -> "ca_loop"]
    /\ UNCHANGED << agents, top, tret, tloc, inst, nInst, served, memVars, ctxVars, turnVars, winVars, isoVars, streamVars, extVars, retrVars >>

\* get_agent: if user_id not in self._agents
get_check(t) ==
    /\ tpc[t] = "get_check"
    /\ tpc' = [tpc EXCEPT ![t] = IF agents[top[t].user_id] = 0 THEN "get_create"
                                 ELSE "get_return"]
    /\ UNCHANGED << agents, lock, top, tret, tloc, inst, nInst, served, memVars,
                    ctxVars, turnVars, winVars, isoVars, streamVars, extVars, retrVars >>

\* get_agent: self._agents[user_id] = self._create_agent(user_id).  The
\* constructor or init() may raise: the exception leaves get_agent and
\* nothing is cached.
get_create(t) ==
    /\ tpc[t] = "get_create"
    /\ \/ /\ Release(t)
          /\ agents' = AfterCreateError(agents, top[t].user_id)
          /\ tret' = [tret EXCEPT ![t] = Raised(top[t].user_id)]
          /\ UNCHANGED << inst, nInst, memory >>
       \/ /\ nInst < MaxInst
          /\ nInst' = nInst + 1
          /\ inst' = [inst EXCEPT ![nInst + 1] = [NoSession EXCEPT !.user_id = top[t].user_id]]
          /\ memory' = [memory EXCEPT ![nInst + 1] = init(MemoryManager(top[t].user_id), db)]
          /\ agents' = [agents EXCEPT ![top[t].user_id] = nInst + 1]
          /\ tpc' = [tpc EXCEPT ![t] = "get_return"]
          /\ UNCHANGED << lock, top, tret >>
    /\ UNCHANGED << tloc, served, db, ctxVars, turnVars, winVars, isoVars, streamVars, extVars,
                    retrVars >>

\* get_agent: return self._agents[user_id] (a KeyError when the entry is gone)
get_return(t) ==
    /\ tpc[t] = "get_return"
    /\ tret' = [tret EXCEPT ![t] = agents[top[t].user_id]]
    /\ served' = IF agents[top[t].user_id] = 0 THEN served
                 ELSE [served EXCEPT ![top[t].user_id] = @ \cup {agents[top[t].user_id]}]
    /\ Release(t)
    /\ UNCHANGED << agents, tloc, inst, nInst, memVars, ctxVars, turnVars, winVars, isoVars, streamVars, extVars, retrVars >>

\* remove_agent: if user_id in self._agents
rm_check(t) ==
    /\ tpc[t] = "rm_check"
    /\ IF agents[top[t].user_id] = 0
       THEN Release(t)
       ELSE /\ tpc' = [tpc EXCEPT ![t] = "rm_close"]
            /\ UNCHANGED << lock, top >>
    /\ UNCHANGED << agents, tret, tloc, inst, nInst, served, memVars, ctxVars, turnVars, winVars, isoVars, streamVars, extVars, retrVars >>

\* remove_agent: close() under try/except, then del
rm_close(t) ==
    /\ tpc[t] = "rm_close"
    /\ IF agents[top[t].user_id] = 0
       THEN UNCHANGED << agents, inst, db, served >>
       ELSE \E raises \in BOOLEAN :
              /\ CloseSession(agents[top[t].user_id], raises)
              /\ agents' = AfterClose(agents, top[t].user_id, raises)
              /\ served' = [served EXCEPT ![top[t].user_id] =
                              IF agents'[top[t].user_id] = 0 THEN {} ELSE @]
    /\ Release(t)
    /\ UNCHANGED << tret, tloc, nInst, memory, ctxVars, turnVars, winVars, isoVars, streamVars, extVars, retrVars >>

\* close_all: one iteration of the loop over self._agents.items()
ca_close_next(t) ==
    /\ tpc[t] = "ca_loop"
    /\ \E u \in Users, raises \in BOOLEAN :
        /\ agents[u] /= 0
        /\ u \notin tloc[t]
        /\ CloseSession(agents[u], raises)
        /\ tloc' = [tloc EXCEPT ![t] = @ \cup {u}]
    /\ UNCHANGED << agents, lock, tpc, top, tret, nInst, served, memory, ctxVars, turnVars, winVars, isoVars, streamVars, extVars, retrVars >>

\* close_all: the loop is over; self._agents.clear()
ca_clear(t) ==
    /\ tpc[t] = "ca_loop"
    /\ \A u \in Users : agents[u] /= 0 => u \in tloc[t]
    /\ agents' = [u \in Users |-> 0]
    /\ served' = [u \in Users |-> {}]
    /\ tloc' = [tloc EXCEPT ![t] = {}]
    /\ Release(t)
    /\ UNCHANGED << tret, inst, nInst, memVars, ctxVars, turnVars, winVars, isoVars, streamVars, extVars, retrVars >>

\* A thread calls a pool method, get_active_user_count among them; the
\* calls are counted.
pool_call(t) ==
    /\ tpc[t] = "idle"
    /\ calls < MaxCalls
    /\ calls' = calls + 1
    /\ \E call \in PoolCalls \cup [kind : {"count"}, user_id : {""}] :
         top' = [top EXCEPT ![t] = call]
    /\ tpc' = [tpc EXCEPT ![t] = "acquire"]
    /\ tret' = [tret EXCEPT ![t] = 0]
    /\ UNCHANGED << agents, lock, tloc, inst, nInst, served, memVars, ctxVars, turnVars, winVars,
                    isoVars, streamVars, emo, pass, ui, jc, wc, rb, single, shut, retrVars >>

\* get_active_user_count: return len(self._agents)
count_return(t) ==
    /\ tpc[t] = "count_return"
    /\ Release(t)
    /\ UNCHANGED << agents, tret, tloc, inst, nInst, served, memVars, ctxVars, turnVars, winVars,
                    isoVars, streamVars, extVars, retrVars >>

\* What a thread does inside a pool method, from taking the lock on.
InPool(t) ==
    \/ Acquire(t)
    \/ get_check(t)
    \/ get_create(t)
    \/ get_return(t)
    \/ rm_check(t)
    \/ rm_close(t)
    \/ ca_close_next(t)
    \/ ca_clear(t)
    \/ count_return(t)

NextPoolCalls == \E t \in Threads : pool_call(t) \/ InPool(t)

SpecPoolCalls == Init /\ [][NextPoolCalls]_vars

\* A thread inside a pool method goes on: taking the free lock, session
\* construction and close all end.
FairSpecPoolCalls == SpecPoolCalls /\ \A t \in Threads : WF_vars(InPool(t))

NextPool ==
    \E t \in Threads :
        \/ Call(t)
        \/ Acquire(t)
        \/ get_check(t)
        \/ get_create(t)
        \/ get_return(t)
        \/ rm_check(t)
        \/ rm_close(t)
        \/ ca_close_next(t)
        \/ ca_clear(t)

SpecPool == Init /\ [][NextPool]_vars

(***************************************************************************)
(* One session's message queue against the store: pushes, the clock, and    *)
(* the session being closed and constructed again                           *)
(***************************************************************************)
\* The k-th message of a conversation: user and assistant take turns.
RoleOf(k) == IF k % 2 = 1 THEN "user" ELSE "assistant"

\* What the queue keeps of a stored row.
QueueEntry(row) == [role |-> row.role, content |-> row.content]

\* memory.save_message(role, content), the INSERT succeeding.
MemSaveMessage ==
    /\ nMsgs < MaxMsgs
    /\ LET r == save_message(memory[1], db, RoleOf(nMsgs + 1), nMsgs + 1, TRUE)
       IN /\ memory' = [memory EXCEPT ![1] = r.mem]
          /\ db' = r.db
    /\ qLog' = Append(qLog, [role |-> RoleOf(nMsgs + 1), content |-> nMsgs + 1])
    /\ nMsgs' = nMsgs + 1
    /\ fresh' = FALSE
    /\ UNCHANGED << nOff, ctxVars, turnVars, poolVars, isoVars, streamVars, extVars, retrVars >>

\* memory.add_to_queue(message): the queue alone (also what a save_message
\* whose INSERT raises leaves behind).
MemAddToQueue ==
    /\ nMsgs < MaxOff
    /\ memory' = [memory EXCEPT ![1] =
                    add_to_queue(@, [role |-> RoleOf(nMsgs + 1), content |-> nMsgs + 1])]
    /\ qLog' = Append(qLog, [role |-> RoleOf(nMsgs + 1), content |-> nMsgs + 1])
    /\ nMsgs' = nMsgs + 1
    /\ nOff' = nOff + 1
    /\ fresh' = FALSE
    /\ UNCHANGED << db, ctxVars, turnVars, poolVars, isoVars, streamVars, extVars, retrVars >>

\* A second passes on the store's clock.
Tick ==
    /\ db.now < MaxClock
    /\ db' = [db EXCEPT !.now = @ + 1]
    /\ UNCHANGED << memory, ctxVars, turnVars, poolVars, winVars, isoVars, streamVars, extVars, retrVars >>

\* The session ends (close) and the user comes back: a new MemoryManager
\* is constructed and initialised from the store.
MemRestart ==
    /\ ~fresh
    /\ LET db1 == close(memory[1], db)
           m == init(MemoryManager(memory[1].user_id), db1)
       IN /\ db' = db1
          /\ memory' = [memory EXCEPT ![1] = m]
          /\ qLog' = m.queue
    /\ fresh' = TRUE
    /\ UNCHANGED << nMsgs, nOff, ctxVars, turnVars, poolVars, isoVars, streamVars, extVars, retrVars >>

NextMem == MemSaveMessage \/ MemAddToQueue \/ Tick \/ MemRestart

SpecMem == InitTurn /\ [][NextMem]_vars

(***************************************************************************)
(* Two sessions side by side: session 1 of user "u1", session 2 of "u2",    *)
(* each a MemoryManager of its own over the one database file               *)
(***************************************************************************)
InitIso ==
    /\ InitCtx
    /\ InitTurnVars
    /\ InitPoolVars
    /\ InitWinVars
    /\ InitIsoVars
    /\ InitStreamVars
    /\ InitRetrVars
    /\ InitExtVars
    /\ memory = [i \in Instances |-> CASE i = 1 -> MemoryManager("u1")
                                       [] i = 2 -> MemoryManager("u2")
                                       [] OTHER -> NoMemory]
    /\ db = Database

Sessions == {1, 2}

\* One more session operation, run on session s.
Acts(s) ==
    /\ nOps < MaxOps
    /\ nOps' = nOps + 1
    /\ actor' = s

\* What a session operation did to session s and the store.
Apply(s, r) ==
    /\ memory' = [memory EXCEPT ![s] = r.mem]
    /\ db' = r.db

\* save_message: the k-th operation stores a text that is the session's own
\* (tens digit) and contains keyword 1 or 2 (last digit).
IsoSaveMessage(s) ==
    /\ Acts(s)
    /\ \E keyword \in {1, 2}, ok \in BOOLEAN :
        Apply(s, save_message(memory[s], db, RoleOf(nOps + 1), 10 * s + keyword, ok))
    /\ UNCHANGED << lastRead, ctxVars, turnVars, poolVars, winVars, streamVars, extVars, retrVars >>

\* save_emotion
IsoSaveEmotion(s) ==
    /\ Acts(s)
    /\ Apply(s, save_emotion(memory[s], db, 10 * s + 3, 5, TRUE))
    /\ UNCHANGED << lastRead, ctxVars, turnVars, poolVars, winVars, streamVars, extVars, retrVars >>

\* save_life_event
IsoSaveLifeEvent(s) ==
    /\ Acts(s)
    /\ Apply(s, save_life_event(memory[s], db, 10 * s + 4, TRUE))
    /\ UNCHANGED << lastRead, ctxVars, turnVars, poolVars, winVars, streamVars, extVars, retrVars >>

\* update_user_profile(name)
IsoUpdateProfile(s) ==
    /\ Acts(s)
    /\ Apply(s, update_user_profile(memory[s], db, 10 * s + 5, TRUE))
    /\ UNCHANGED << lastRead, ctxVars, turnVars, poolVars, winVars, streamVars, extVars, retrVars >>

\* close, then a new MemoryManager for the same user, initialised.
IsoRestart(s) ==
    /\ Acts(s)
    /\ LET db1 == close(memory[s], db)
       IN /\ db' = db1
          /\ memory' = [memory EXCEPT ![s] = init(MemoryManager(memory[s].user_id), db1)]
    /\ UNCHANGED << lastRead, ctxVars, turnVars, poolVars, winVars, streamVars, extVars, retrVars >>

\* get_recent_messages(limit)
IsoGetRecent(s) ==
    /\ Acts(s)
    /\ lastRead' = [by |-> s,
                    rows |-> Repository_get_recent_messages(db, memory[s].user_id, MAX_QUEUE_SIZE)]
    /\ UNCHANGED << memVars, ctxVars, turnVars, poolVars, winVars, streamVars, extVars, retrVars >>

\* search_messages(query)
IsoSearch(s) ==
    /\ Acts(s)
    /\ \E query \in {1, 2} :
        LET found == Repository_search_messages(db, memory[s].user_id, query, 10)
        IN lastRead' = [by |-> s, rows |-> [i \in 1..Len(found) |-> found[i].row]]
    /\ UNCHANGED << memVars, ctxVars, turnVars, poolVars, winVars, streamVars, extVars, retrVars >>

NextIso ==
    \E s \in Sessions :
        \/ IsoSaveMessage(s)
        \/ IsoSaveEmotion(s)
        \/ IsoSaveLifeEvent(s)
        \/ IsoUpdateProfile(s)
        \/ IsoRestart(s)
        \/ IsoGetRecent(s)
        \/ IsoSearch(s)

SpecIso == InitIso /\ [][NextIso]_vars

(***************************************************************************)
(* The parallel front of a turn and the streaming turn                      *)
(* (src/src/agent/multi_agent_graph.py: run_parallel_agents,                *)
(* run_parallel_preprocess, async_save_memory, MultiAgentRunner.chat_stream)*)
(* Threads: "caller" runs the generator, the executor's two workers run     *)
(* the submitted agents, "background" is the thread async_save_memory       *)
(* starts.                                                                 *)
(***************************************************************************)
\* The pieces the drafting model streams; full_response += chunk.
Chunks == {1, 2}
Concat(a, b) == IF a = EmptyStr THEN b ELSE a * 10 + b

\* executor.submit: the future of a task a worker has not finished yet.
Submitted == [status |-> "submitted", result |-> None]
FutureDone(f) == f.status \in {"ok", "failed"}

\* future.result(): the task's return value, or its exception raised again
\* in the caller.
FutureResult_Default(f) ==
    [raises |-> FALSE, value |-> IF f.status = "failed" THEN EmptyStr ELSE f.result]
FutureResult(f) == [raises |-> f.status = "failed", value |-> f.result]

\* Leaving `with ThreadPoolExecutor(...) as executor`: __exit__ calls
\* shutdown(wait=True), which joins both workers, also while an exception
\* is on its way out of the block.
ExecutorExitReady_NoWait(f) == TRUE
ExecutorExitReady(f) == FutureDone(f.emotion) /\ FutureDone(f.memory)

\* async_save_memory after thread.start(): it does not join the thread.
CallerBlocked_Join(b) == b.status \notin {"done", "failed"}
CallerBlocked(b) == FALSE

\* _save: `except Exception` around save_agent.run logs the error; nothing
\* is raised again and nothing calls run a second time.
AfterSaveError_Retry(b) == [b EXCEPT !.status = "started"]
AfterSaveError(b) == [b EXCEPT !.status = "failed"]

\* The two submits of run_parallel_agents / run_parallel_preprocess.
SubmitBoth(kind) ==
    [kind |-> kind, pc |-> "result_emotion", emotion |-> Submitted, memory |-> Submitted]

\* A store write of the streaming turn, for the history.
Write(what, by) == [what |-> what, by |-> by, draft_done |-> stream.pc \notin
                        {"idle", "preprocess", "save_user", "draft_check", "draft"}]

\* run_parallel_agents(emotion_agent, memory_agent, user_message), called
\* on its own.
call_run_parallel_agents ==
    /\ pc = "idle" /\ stream.pc = "idle" /\ fan.kind = "none"
    /\ fan' = SubmitBoth("agents")
    /\ UNCHANGED << stream, bg, writes, mutated_by, strace, extVars, retrVars, isoVars, winVars, poolVars,
                    ctxVars, memVars, turnVars >>

\* chat_stream(user_message) up to the two submits inside
\* run_parallel_preprocess (preprocess_tools is local and keeps no state).
StartStream ==
    /\ pc = "idle" /\ stream.pc = "idle" /\ fan.kind = "none"
    /\ \E user_message \in UserInputs :
         stream' = [stream EXCEPT !.pc = "preprocess", !.user_input = user_message]
    /\ fan' = SubmitBoth("preprocess")
    /\ strace' = Append(strace, "fan_out")
    /\ UNCHANGED << bg, writes, mutated_by, extVars, retrVars, isoVars, winVars, poolVars, ctxVars, memVars,
                    turnVars >>

\* A worker runs emotion_agent.run: the model call raises, or the result.
worker_emotion ==
    /\ fan.emotion.status = "submitted"
    /\ \/ fan' = [fan EXCEPT !.emotion = [status |-> "failed", result |-> None]]
       \/ \E reply \in EmotionReplies :
            fan' = [fan EXCEPT !.emotion = [status |-> "ok", result |-> EmotionAgent_run(reply)]]
    /\ UNCHANGED << stream, bg, writes, mutated_by, strace, extVars, retrVars, isoVars, winVars, poolVars,
                    ctxVars, memVars, turnVars >>

\* A worker runs memory_agent.run(emotion_result=None): the model call
\* raises, or the retrieved text ("" when it did not search).
worker_memory ==
    /\ fan.memory.status = "submitted"
    /\ \/ fan' = [fan EXCEPT !.memory = [status |-> "failed", result |-> None]]
       \/ \E retrieved \in {EmptyStr, 9} :
            fan' = [fan EXCEPT !.memory = [status |-> "ok", result |-> retrieved]]
    /\ UNCHANGED << stream, bg, writes, mutated_by, strace, extVars, retrVars, isoVars, winVars, poolVars,
                    ctxVars, memVars, turnVars >>

\* emotion_result = emotion_future.result(): blocks until the task is done.
fan_result_emotion ==
    /\ fan.pc = "result_emotion"
    /\ FutureDone(fan.emotion)
    /\ fan' = [fan EXCEPT !.pc = IF FutureResult(fan.emotion).raises THEN "exit_raising"
                                 ELSE "result_memory",
                          !.emotion.result = FutureResult(fan.emotion).value]
    /\ UNCHANGED << stream, bg, writes, mutated_by, strace, extVars, retrVars, isoVars, winVars, poolVars,
                    ctxVars, memVars, turnVars >>

\* memory_result = memory_future.result()
fan_result_memory ==
    /\ fan.pc = "result_memory"
    /\ FutureDone(fan.memory)
    /\ fan' = [fan EXCEPT !.pc = IF FutureResult(fan.memory).raises THEN "exit_raising"
                                 ELSE "exit",
                          !.memory.result = FutureResult(fan.memory).value]
    /\ UNCHANGED << stream, bg, writes, mutated_by, strace, extVars, retrVars, isoVars, winVars, poolVars,
                    ctxVars, memVars, turnVars >>

\* The end of the with block: the function returns both results, or the
\* exception of result() leaves it.
fan_exit ==
    /\ fan.pc \in {"exit", "exit_raising"}
    /\ ExecutorExitReady(fan)
    /\ fan' = [fan EXCEPT !.pc = IF fan.pc = "exit" THEN "returned" ELSE "raised"]
    /\ UNCHANGED << stream, bg, writes, mutated_by, strace, extVars, retrVars, isoVars, winVars, poolVars,
                    ctxVars, memVars, turnVars >>

\* chat_stream after run_parallel_preprocess: nothing catches its exception;
\* otherwise update_emotion when emotion_type is truthy, and the context is
\* merged.
stream_after_fanout ==
    /\ stream.pc = "preprocess"
    /\ fan.pc \in {"returned", "raised"}
    /\ IF fan.pc = "raised"
       THEN /\ stream' = [stream EXCEPT !.pc = "raised"]
            /\ UNCHANGED << memory, mutated_by >>
       ELSE LET result == fan.emotion.result
            IN /\ stream' = [stream EXCEPT !.pc = "save_user",
                                           !.emotion_result = result,
                                           !.retrieved = fan.memory.result]
               /\ memory' = IF Truthy(result.emotion_type)
                            THEN [memory EXCEPT ![runner].working_context =
                                    update_emotion(@, result.emotion_type, result.intensity)]
                            ELSE memory
               /\ mutated_by' = IF Truthy(result.emotion_type)
                                THEN mutated_by \cup {"caller"} ELSE mutated_by
    /\ strace' = Append(strace, "after_fan_out")
    /\ UNCHANGED << fan, bg, writes, db, extVars, retrVars, isoVars, winVars, poolVars, ctxVars, turnVars >>

\* 3. self.memory.save_message(role="user", ...): the queue, then the INSERT
\* (which may raise), then the interaction count.
stream_save_user ==
    /\ stream.pc = "save_user"
    /\ \E ok \in BOOLEAN :
         LET r == save_message(memory[runner], db, "user", stream.user_input, ok)
         IN /\ memory' = [memory EXCEPT ![runner] = r.mem]
            /\ db' = r.db
            /\ stream' = [stream EXCEPT !.pc = IF r.raised THEN "raised" ELSE "draft_check"]
            /\ writes' = IF r.raised THEN writes
                         ELSE Append(writes, Write("user_message", "caller"))
    /\ mutated_by' = mutated_by \cup {"caller"}
    /\ strace' = Append(strace, "save_user")
    /\ UNCHANGED << fan, bg, extVars, retrVars, isoVars, winVars, poolVars, ctxVars, turnVars >>

\* 4. response_agent.run_stream up to its first chunk: the non-streaming
\* model call that looks for tool calls.
stream_draft_check ==
    /\ stream.pc = "draft_check"
    /\ \E ok \in BOOLEAN :
         stream' = [stream EXCEPT !.pc = IF ok THEN "draft" ELSE "raised"]
    /\ strace' = Append(strace, "draft")
    /\ UNCHANGED << fan, bg, writes, mutated_by, extVars, retrVars, isoVars, winVars, poolVars, ctxVars,
                    memVars, turnVars >>

\* The loop over the streamed chunks: the next chunk is added to
\* full_response and yielded, the stream ends, or the model call raises.
stream_chunk ==
    /\ stream.pc = "draft"
    /\ \/ /\ stream.chunks < MaxChunks
          /\ \E chunk \in Chunks :
               stream' = [stream EXCEPT !.full_response = Concat(@, chunk),
                                        !.chunks = @ + 1]
       \/ stream' = [stream EXCEPT !.pc = "save_assistant"]
       \/ stream' = [stream EXCEPT !.pc = "raised"]
    /\ UNCHANGED << fan, bg, writes, mutated_by, strace, extVars, retrVars, isoVars, winVars, poolVars,
                    ctxVars, memVars, turnVars >>

\* 5. self.memory.save_message(role="assistant", content=full_response)
stream_save_assistant ==
    /\ stream.pc = "save_assistant"
    /\ \E ok \in BOOLEAN :
         LET r == save_message(memory[runner], db, "assistant", stream.full_response, ok)
         IN /\ memory' = [memory EXCEPT ![runner] = r.mem]
            /\ db' = r.db
            /\ stream' = [stream EXCEPT !.pc = IF r.raised THEN "raised" ELSE "dispatch"]
            /\ writes' = IF r.raised THEN writes
                         ELSE Append(writes, Write("assistant_message", "caller"))
    /\ mutated_by' = mutated_by \cup {"caller"}
    /\ strace' = Append(strace, "save_assistant")
    /\ UNCHANGED << fan, bg, extVars, retrVars, isoVars, winVars, poolVars, ctxVars, turnVars >>

\* 6. async_save_memory: threading.Thread(target=_save, daemon=True).start()
async_save_memory ==
    /\ stream.pc = "dispatch"
    /\ bg' = [status |-> "started", runs |-> 0, ai_response |-> stream.full_response]
    /\ stream' = [stream EXCEPT !.pc = "async_return"]
    /\ strace' = Append(strace, "dispatch")
    /\ UNCHANGED << fan, writes, mutated_by, extVars, retrVars, isoVars, winVars, poolVars, ctxVars, memVars,
                    turnVars >>

\* async_save_memory returns and the generator ends.
stream_return ==
    /\ stream.pc = "async_return"
    /\ ~CallerBlocked(bg)
    /\ stream' = [stream EXCEPT !.pc = "done"]
    /\ UNCHANGED << fan, bg, writes, mutated_by, strace, extVars, retrVars, isoVars, winVars, poolVars,
                    ctxVars, memVars, turnVars >>

\* _save on the background thread: save_agent.run is entered.
bg_call_run ==
    /\ bg.status = "started"
    /\ bg.runs < MaxRuns
    /\ bg' = [bg EXCEPT !.status = "running", !.runs = @ + 1]
    /\ UNCHANGED << fan, stream, writes, mutated_by, strace, extVars, retrVars, isoVars, winVars, poolVars,
                    ctxVars, memVars, turnVars >>

\* save_agent.run on the background thread: its model call raises (caught
\* and logged by _save), or its save actions are applied to the session's
\* MemoryManager, each under its own try/except.
bg_finish_run ==
    /\ bg.status = "running"
    /\ \/ /\ bg' = AfterSaveError(bg)
          /\ UNCHANGED << memVars, writes, mutated_by >>
       \/ \E actions \in SaveReplies, failing \in SUBSET (1..3) :
            LET r == run_save_actions(memory[runner], db, actions, failing, 1)
            IN /\ memory' = [memory EXCEPT ![runner] = r.mem]
               /\ db' = r.db
               /\ bg' = [bg EXCEPT !.status = "done"]
               /\ writes' = IF r.db = db THEN writes
                            ELSE Append(writes, Write("extraction", "background"))
               /\ mutated_by' = IF r.mem = memory[runner] THEN mutated_by
                                ELSE mutated_by \cup {"background"}
    /\ UNCHANGED << fan, stream, strace, extVars, retrVars, isoVars, winVars, poolVars, ctxVars, turnVars >>

NextStream ==
    \/ call_run_parallel_agents
    \/ StartStream
    \/ worker_emotion
    \/ worker_memory
    \/ fan_result_emotion
    \/ fan_result_memory
    \/ fan_exit
    \/ stream_after_fanout
    \/ stream_save_user
    \/ stream_draft_check
    \/ stream_chunk
    \/ stream_save_assistant
    \/ async_save_memory
    \/ stream_return
    \/ bg_call_run
    \/ bg_finish_run

SpecStream == InitTurn /\ [][NextStream]_vars

\* Both ways of running a turn on session 1: chat and chat_stream.
SpecChat == InitTurn /\ [][NextTurn \/ NextStream]_vars

(***************************************************************************)
(* One retrieval: _execute_search, or search_relevant_context               *)
(***************************************************************************)
\* The one `except Exception` of _execute_search: the warning is logged and
\* control goes on after the try block, to the formatting.
AfterSearchError_NextSource(next) == next
AfterSearchError(next) == "format"

\* _execute_search / search_relevant_context entered: no queries, no text.
search_start ==
    /\ search.pc = "idle"
    /\ search' = [search EXCEPT !.pc = CASE req.nq = 0 -> "returned"
                                         [] req.mode = "agent" -> "events"
                                         [] OTHER -> "keywords"]
    /\ UNCHANGED << req, ctxVars, memVars, turnVars, poolVars, winVars, isoVars, streamVars, extVars >>

\* 1. events, when requested: get_life_events or the formatting raises, or
\* the event hits are appended.
search_events ==
    /\ search.pc = "events"
    /\ search' =
         IF "events" \notin SearchTypes(req) THEN [search EXCEPT !.pc = "messages"]
         ELSE IF req.fail = "events"
              THEN [search EXCEPT !.pc = AfterSearchError("messages")]
              ELSE [search EXCEPT !.pc = "messages", !.results = @ \o EventLines(req)]
    /\ UNCHANGED << req, ctxVars, memVars, turnVars, poolVars, winVars, isoVars, streamVars, extVars >>

\* 2. messages, when requested: the keyword search per query, then the
\* embedding search when no message hit is in `results`.  A search that
\* raises at query k leaves the hits of the queries before it.
search_messages ==
    /\ search.pc = "messages"
    /\ IF "messages" \notin SearchTypes(req)
       THEN search' = [search EXCEPT !.pc = "emotions"]
       ELSE IF req.fail = "messages"
            THEN \E k \in 1..Min(req.nq, QUERY_CAP) :
                    search' = [search EXCEPT !.pc = AfterSearchError("emotions"),
                                             !.results = @ \o KeywordMessageLines(req, k - 1)]
            ELSE search' = [search EXCEPT !.pc = "emotions",
                                          !.results = @ \o MessageLines(req)]
    /\ UNCHANGED << req, ctxVars, memVars, turnVars, poolVars, winVars, isoVars, streamVars, extVars >>

\* 3. emotions, when requested: get_emotion_history raises, or the matching
\* records are appended.
search_emotions ==
    /\ search.pc = "emotions"
    /\ search' =
         IF "emotions" \notin SearchTypes(req) THEN [search EXCEPT !.pc = "format"]
         ELSE IF req.fail = "emotions"
              THEN [search EXCEPT !.pc = AfterSearchError("format")]
              ELSE [search EXCEPT !.pc = "format", !.results = @ \o EmotionLines(req)]
    /\ UNCHANGED << req, ctxVars, memVars, turnVars, poolVars, winVars, isoVars, streamVars, extVars >>

\* unique_results = list(dict.fromkeys(results)); "\n".join(unique_results[:10])
search_format ==
    /\ search.pc = "format"
    /\ search' = [search EXCEPT !.pc = "returned",
                                !.output = FirstN(Dedup(search.results), MAX_RESULTS)]
    /\ UNCHANGED << req, ctxVars, memVars, turnVars, poolVars, winVars, isoVars, streamVars, extVars >>

\* search_relevant_context: the message hits of keywords[:3], then one event
\* hit per keyword; nothing catches a store error here.
search_keywords ==
    /\ search.pc = "keywords"
    /\ search' =
         IF req.fail \in {"messages", "events"} THEN [search EXCEPT !.pc = "raised"]
         ELSE [search EXCEPT !.pc = "keywords_format",
                             !.results = KeywordMessageLines(req, Min(req.nq, QUERY_CAP))
                                            \o FirstN(KeywordEventHits, Min(req.nE, QUERY_CAP))]
    /\ UNCHANGED << req, ctxVars, memVars, turnVars, poolVars, winVars, isoVars, streamVars, extVars >>

\* unique_parts = list(dict.fromkeys(parts))[:5], under the header when
\* there are any.
search_keywords_format ==
    /\ search.pc = "keywords_format"
    /\ LET unique_parts == FirstN(Dedup(search.results), CONTEXT_CAP)
       IN search' = [search EXCEPT !.pc = "returned", !.output = unique_parts,
                                   !.header = unique_parts # << >>]
    /\ UNCHANGED << req, ctxVars, memVars, turnVars, poolVars, winVars, isoVars, streamVars, extVars >>

NextRetr ==
    \/ search_start
    \/ search_events
    \/ search_messages
    \/ search_emotions
    \/ search_format
    \/ search_keywords
    \/ search_keywords_format

\* A constructed session and one retrieval request.
InitRetr ==
    /\ InitCtx
    /\ InitTurnVars
    /\ InitPoolVars
    /\ InitWinVars
    /\ InitIsoVars
    /\ InitStreamVars
    /\ req \in RetrievalRequests
    /\ InitExtVars
    /\ search = NoSearch
    /\ memory = [i \in Instances |-> IF i = 1 THEN MemoryManager("u1") ELSE NoMemory]
    /\ db = Database

SpecRetr == InitRetr /\ [][NextRetr]_vars

(***************************************************************************)
(* One EmotionAnalyzer.analyze call                                        *)
(***************************************************************************)
\* analyze up to the end of its first two ifs' conditions: the rule pass
\* and the routing.
analyze_rule ==
    /\ emo.pc = "idle"
    /\ LET rule == analyze_rule_based(emo.input.matches, emo.input.mods,
                                      emo.input.exclamations, emo.input.half_up)
           route == Route(rule, emo.input.has_llm)
       IN emo' = [emo EXCEPT !.rule = rule,
                             !.pc = IF route = "llm" THEN "llm" ELSE "returned",
                             !.result = CASE route = "rule" -> FromRule(rule)
                                          [] route = "last" -> LastResort(rule)
                                          [] OTHER -> NoResult]
    /\ UNCHANGED << pass, ui, lateVars, ctxVars, memVars, turnVars, poolVars, winVars, isoVars, streamVars,
                    retrVars >>

\* llm_result = self._llm_analyze(text), then the EmotionResult built from
\* it (a result without emotion_type raises KeyError), or the rule result.
analyze_llm ==
    /\ emo.pc = "llm"
    /\ \E reply \in LlmEmotionReplies :
         LET raises == \/ reply.kind = "partial"
                       \/ reply.kind \in {"raises", "unparsable"} /\ ~Swallowed(reply.kind)
         IN emo' = [emo EXCEPT !.called = @ + 1,
                               !.reply = reply,
                               !.pc = IF raises THEN "raised" ELSE "returned",
                               !.result = CASE raises -> NoResult
                                            [] reply.kind = "object" -> FromLlm(reply)
                                            [] OTHER -> LastResort(emo.rule)]
    /\ UNCHANGED << pass, ui, lateVars, ctxVars, memVars, turnVars, poolVars, winVars, isoVars, streamVars,
                    retrVars >>

NextEmo == analyze_rule \/ analyze_llm

\* An analyzer, with or without a generator, and a text to analyze.
InitEmo ==
    /\ InitCtx
    /\ InitTurnVars
    /\ InitPoolVars
    /\ InitWinVars
    /\ InitIsoVars
    /\ InitStreamVars
    /\ InitRetrVars
    /\ \E input \in AnalyzeInputs : emo = [input |-> input] @@ NoAnalysis
    /\ InitLateVars
    /\ pass = NoPass
    /\ ui = NoReply
    /\ memory = [i \in Instances |-> NoMemory]
    /\ db = Database

SpecEmo == InitEmo /\ [][NextEmo]_vars

(***************************************************************************)
(* A long conversation on session 1: user and assistant messages saved in  *)
(* turn, an INSERT failing now and then, the session closed and opened     *)
(* again                                                                   *)
(***************************************************************************)
LastStoredRole ==
    IF db.messages = << >> THEN "none" ELSE db.messages[Len(db.messages)].role

\* The session and the store after n turns (n + TRUST_INITIAL below the cap),
\* each a save_message of the user's text and one of the reply, both stored.
Conversation(n) ==
    [mem |-> [MemoryManager("u1") EXCEPT
                !.working_context.interaction_count = n,
                !.working_context.trust_level = TRUST_INITIAL + n,
                !.queue = LastN([i \in 1..(2 * n) |->
                                    [role |-> RoleOf(i),
                                     content |-> IF RoleOf(i) = "user" THEN 11 ELSE 1]],
                                MAX_QUEUE_SIZE)],
     db |-> [Database EXCEPT
                !.messages = [i \in 1..(2 * n) |->
                                 [user_id |-> "u1", role |-> RoleOf(i),
                                  content |-> IF RoleOf(i) = "user" THEN 11 ELSE 1,
                                  created_at |-> Database.now]]]]

\* A new user, or one who comes back after EarlierTurns turns: that session
\* was closed and a new MemoryManager is initialised from the store.
InitTrust ==
    /\ InitCtx
    /\ InitTurnVars
    /\ InitPoolVars
    /\ InitWinVars
    /\ InitIsoVars
    /\ InitStreamVars
    /\ InitRetrVars
    /\ InitExtVars
    /\ \E n \in {0, EarlierTurns} :
         LET c == Conversation(n)
             db1 == close(c.mem, c.db)
         IN /\ db = db1
            /\ memory = [i \in Instances |->
                            IF i = 1 THEN init(MemoryManager("u1"), db1) ELSE NoMemory]

\* memory.save_message(role="user", ...): the next turn's user message.
TrustSaveUser ==
    /\ LastStoredRole \in {"none", "assistant"}
    /\ nMsgs < MaxMsgs
    /\ \E ok \in BOOLEAN :
         LET r == save_message(memory[1], db, "user", 11, ok)
         IN /\ ~ok => nOff < MaxOff
            /\ memory' = [memory EXCEPT ![1] = r.mem]
            /\ db' = r.db
            /\ nOff' = IF ok THEN nOff ELSE nOff + 1
    /\ nMsgs' = nMsgs + 1
    /\ UNCHANGED << qLog, fresh, ctxVars, turnVars, poolVars, isoVars, streamVars,
                    retrVars, extVars >>

\* memory.save_message(role="assistant", ...): the reply to the stored user
\* message.
TrustSaveAssistant ==
    /\ LastStoredRole = "user"
    /\ nMsgs < MaxMsgs
    /\ \E ok \in BOOLEAN :
         LET r == save_message(memory[1], db, "assistant", 1, ok)
         IN /\ ~ok => nOff < MaxOff
            /\ memory' = [memory EXCEPT ![1] = r.mem]
            /\ db' = r.db
            /\ nOff' = IF ok THEN nOff ELSE nOff + 1
    /\ nMsgs' = nMsgs + 1
    /\ UNCHANGED << qLog, fresh, ctxVars, turnVars, poolVars, isoVars, streamVars,
                    retrVars, extVars >>

\* close, then a new MemoryManager for the same user, init.
TrustRestart ==
    /\ LET db1 == close(memory[1], db)
           m == init(MemoryManager(memory[1].user_id), db1)
       IN /\ db' = db1
          /\ memory' = [memory EXCEPT ![1] = m]
    /\ UNCHANGED << winVars, ctxVars, turnVars, poolVars, isoVars, streamVars,
                    retrVars, extVars >>

NextTrust == TrustSaveUser \/ TrustSaveAssistant \/ TrustRestart

SpecTrust == InitTrust /\ [][NextTrust]_vars

(***************************************************************************)
(* The profile of session 1's user over restarts: fields written through   *)
(* the MemoryManager (users row and working_contexts row) or through       *)
(* EmotionalAgent.update_user_info (working_contexts row only)             *)
(***************************************************************************)
Ages == {30, 31}
Names == {5}

\* memory.update_user_profile(field, value), as the save agent and the
\* update_user_profile tool call it.
ProfileUpdate ==
    /\ nMsgs < MaxMsgs
    /\ \E field \in {"name", "age"}, ok \in BOOLEAN :
         \E value \in IF field = "name" THEN Names ELSE Ages :
            LET r == MemoryManager_update_user_profile(memory[1], db, field, value, ok)
            IN /\ ~ok => nOff < MaxOff
               /\ memory' = [memory EXCEPT ![1] = r.mem]
               /\ db' = r.db
               /\ nOff' = IF ok THEN nOff ELSE nOff + 1
    /\ nMsgs' = nMsgs + 1
    /\ fresh' = FALSE
    /\ UNCHANGED << qLog, ctxVars, turnVars, poolVars, isoVars, streamVars, retrVars, extVars >>

\* EmotionalAgent.update_user_info(age=value): set_user_info, then
\* save_working_context.
update_user_info ==
    /\ nMsgs < MaxMsgs
    /\ \E value \in Ages :
         LET m == [memory[1] EXCEPT !.working_context = set_user_info(@, None, value)]
         IN /\ memory' = [memory EXCEPT ![1] = m]
            /\ db' = save_working_context(m, db)
    /\ nMsgs' = nMsgs + 1
    /\ fresh' = FALSE
    /\ UNCHANGED << qLog, nOff, ctxVars, turnVars, poolVars, isoVars, streamVars, retrVars,
                    extVars >>

\* memory.save_message(role="user", ...), stored.
ProfileSaveMessage ==
    /\ nMsgs < MaxMsgs
    /\ LET r == save_message(memory[1], db, "user", 11, TRUE)
       IN /\ memory' = [memory EXCEPT ![1] = r.mem]
          /\ db' = r.db
    /\ nMsgs' = nMsgs + 1
    /\ fresh' = FALSE
    /\ UNCHANGED << qLog, nOff, ctxVars, turnVars, poolVars, isoVars, streamVars, retrVars,
                    extVars >>

\* close, then a new MemoryManager for the same user on the same store, init.
ProfileRestart ==
    /\ ~fresh
    /\ LET db1 == close(memory[1], db)
           m == init(MemoryManager(memory[1].user_id), db1)
       IN /\ db' = db1
          /\ memory' = [memory EXCEPT ![1] = m]
    /\ fresh' = TRUE
    /\ UNCHANGED << qLog, nMsgs, nOff, ctxVars, turnVars, poolVars, isoVars, streamVars,
                    retrVars, extVars >>

NextProfile == ProfileUpdate \/ update_user_info \/ ProfileSaveMessage \/ ProfileRestart

SpecProfile == InitTurn /\ [][NextProfile]_vars

(***************************************************************************)
(* MemorySaveAgent.run on session 1, one save action at a time             *)
(***************************************************************************)
\* save_actions[:3], and the whole list in its place.
Proposed_All(actions) == actions
Proposed(actions) == FirstN(actions, 3)

\* except Exception around _execute_save_action: the error is logged and the
\* loop goes on; without the handler the call raises.
AfterActionError_Raise(next) == "raised"
AfterActionError(next) == next

\* run up to the loop: the model call raises, or returns the proposed actions.
save_agent_call ==
    /\ pass.pc \in {"idle", "returned", "raised"}
    /\ pass.runs < MaxRuns
    /\ \/ pass' = [NoPass EXCEPT !.pc = "raised", !.runs = pass.runs + 1]
       \/ \E actions \in SaveReplies :
            pass' = [NoPass EXCEPT !.pc = "loop", !.actions = actions, !.k = 1,
                                   !.runs = pass.runs + 1]
    /\ UNCHANGED << emo, ui, lateVars, ctxVars, memVars, turnVars, poolVars, winVars, isoVars, streamVars,
                    retrVars >>

\* One iteration: _execute_save_action(action) under try/except.
save_agent_action ==
    /\ pass.pc = "loop"
    /\ pass.k <= Len(Proposed(pass.actions))
    /\ \E ok \in BOOLEAN :
         LET r == execute_save_action(memory[1], db, pass.actions[pass.k], ok)
         IN /\ memory' = [memory EXCEPT ![1] = r.mem]
            /\ db' = r.db
            /\ pass' = [pass EXCEPT !.called = @ \union {pass.k},
                                    !.raised = IF r.raised THEN @ \union {pass.k} ELSE @,
                                    !.k = @ + 1,
                                    !.pc = IF r.raised THEN AfterActionError("loop") ELSE "loop"]
    /\ UNCHANGED << emo, ui, lateVars, ctxVars, turnVars, poolVars, winVars, isoVars, streamVars, retrVars >>

\* The loop is over: run returns.
save_agent_return ==
    /\ pass.pc = "loop"
    /\ pass.k > Len(Proposed(pass.actions))
    /\ pass' = [pass EXCEPT !.pc = "returned"]
    /\ UNCHANGED << emo, ui, lateVars, ctxVars, memVars, turnVars, poolVars, winVars, isoVars, streamVars,
                    retrVars >>

NextSave == save_agent_call \/ save_agent_action \/ save_agent_return

SpecSave == InitTurn /\ [][NextSave]_vars

(***************************************************************************)
(* main.chat (src/src/main.py): the turn as the page sees it               *)
(***************************************************************************)
\* The message of the exception (str(e)), the apology that precedes it and
\* the text shown for an empty content, as texts.
ErrorText == 9
Apology == 4
Acknowledged == 8

\* f"抱歉，我遇到了一些问题：{str(e)}"
ErrorReply(e) == Concat(Apology, e)

\* agent.chat(message) returned: its content, or the fixed text when the
\* content is empty.
main_chat_return ==
    /\ pc = "done"
    /\ ui.kind = "none"
    /\ ui' = IF Truthy(returned) THEN [kind |-> "content", text |-> returned]
             ELSE [kind |-> "fixed", text |-> Acknowledged]
    /\ UNCHANGED << emo, pass, lateVars, ctxVars, memVars, turnVars, poolVars, winVars, isoVars,
                    streamVars, retrVars >>

\* agent.chat(message) raised: except Exception as e.
main_chat_except ==
    /\ pc = "raised"
    /\ ui.kind = "none"
    /\ ui' = [kind |-> "apology", text |-> ErrorReply(ErrorText)]
    /\ UNCHANGED << emo, pass, lateVars, ctxVars, memVars, turnVars, poolVars, winVars, isoVars,
                    streamVars, retrVars >>

NextMain == NextTurn \/ main_chat_return \/ main_chat_except

SpecMain == InitTurn /\ [][NextMain]_vars

(***************************************************************************)
(* BaseAgent._call_llm_json (src/src/agent/agents/base.py), one attempt at *)
(* a time.  A content is what _parse_json can tell apart in it: whether it *)
(* holds a markdown code block, and what the text inside the block and the *)
(* whole text are: a JSON object between braces ("object"), braces around  *)
(* text that is not JSON ("broken"), JSON without braces ("scalar"), or    *)
(* anything else ("prose").                                                *)
(***************************************************************************)
max_retries == 2

Payloads == {"object", "broken", "scalar", "prose"}
Contents == {c \in [fence : BOOLEAN, inner : Payloads, outer : Payloads] :
                ~c.fence => c.inner = "prose"}

\* _parse_json: the text of the code block when there is one, then the span
\* from the first "{" to the last "}" when there is one, then json.loads.
parse_json(content) ==
    LET text == IF content.fence THEN content.inner ELSE content.outer
    IN IF text \in {"object", "scalar"} THEN [ok |-> TRUE, value |-> text]
       ELSE [ok |-> FALSE, value |-> "none"]

\* if attempt < max_retries: the reply and the instruction are appended; and
\* the loop without that test's effect.
CarriesInstruction_Never(attempt) == FALSE
CarriesInstruction(attempt) == attempt < max_retries

\* The caller's messages: the system prompt and the task, after 0 or 1
\* earlier exchanges.
CallMessages == {<< "system", "user" >>, << "system", "user", "assistant", "user" >>}

\* _call_llm_json(messages) is called.
json_call_start ==
    /\ jc.pc = "idle"
    /\ \E messages \in CallMessages :
         jc' = [NoJsonCall EXCEPT !.pc = "call", !.messages = messages]
    /\ UNCHANGED << emo, pass, ui, wc, rb, calls, single, shut, ctxVars, memVars, turnVars, poolVars, winVars, isoVars,
                    streamVars, retrVars >>

\* One iteration of for attempt in range(max_retries + 1): the generation
\* call raises, or returns a content that parses (return result) or does not
\* (except json.JSONDecodeError); after the last iteration, return {}.
json_call_attempt ==
    /\ jc.pc = "call"
    /\ \/ jc' = [jc EXCEPT !.pc = "raised", !.calls = @ + 1,
                           !.sent = Append(@, jc.messages)]
       \/ \E content \in Contents :
            LET r == parse_json(content)
                more == jc.attempt + 1 \in 0..max_retries
            IN jc' = [jc EXCEPT
                 !.calls = @ + 1,
                 !.sent = Append(@, jc.messages),
                 !.replies = Append(@, content),
                 !.messages = IF ~r.ok /\ CarriesInstruction(jc.attempt)
                              THEN @ \o << "assistant", "instruction" >> ELSE @,
                 !.attempt = IF r.ok THEN @ ELSE @ + 1,
                 !.pc = IF r.ok \/ ~more THEN "returned" ELSE "call",
                 !.result = IF r.ok THEN [kind |-> "parsed", value |-> r.value]
                            ELSE IF ~more THEN [kind |-> "empty", value |-> "none"]
                            ELSE @]
    /\ UNCHANGED << emo, pass, ui, wc, rb, calls, single, shut, ctxVars, memVars, turnVars, poolVars, winVars, isoVars,
                    streamVars, retrVars >>

NextJson == json_call_start \/ json_call_attempt

SpecJson == InitTurn /\ [][NextJson]_vars
FairSpecJson == SpecJson /\ WF_vars(NextJson)

(***************************************************************************)
(* Repository.save_working_context / get_working_context, called directly  *)
(* for the two users (each has its users row, as after create_user).       *)
(***************************************************************************)
\* The dicts saved: to_dict of contexts that differ in name and count.
SavedContents ==
    {to_dict([WorkingContext EXCEPT !.user_name = name, !.interaction_count = n]) :
        name \in {None, 5, 6}, n \in 0..2}

\* repo.save_working_context(user_id, content)
repo_save_working_context ==
    /\ \E user_id \in Users, content \in SavedContents :
         /\ db' = Repository_save_working_context(db, user_id, content)
         /\ wc' = [wc EXCEPT ![user_id] = [found |-> TRUE, content |-> content]]
    /\ UNCHANGED << jc, rb, calls, single, shut, memory, emo, pass, ui, ctxVars, turnVars, poolVars, winVars, isoVars,
                    streamVars, retrVars >>

NextWc == repo_save_working_context

SpecWc == InitTurn /\ [][NextWc]_vars

(***************************************************************************)
(* One EmotionAnalyzer.analyze_rule_based call, over the whole modifier    *)
(* table                                                                   *)
(***************************************************************************)
\* Keywords of the best emotion the text holds (6: the base intensity is at
\* its limit of 0.9) and its exclamation marks (4: past the limit of 0.15).
MatchCounts == {0, 1, 3, 6}
ExclamationCounts == {0, 1, 4}

\* A blank text, or a text with its keywords, modifiers and exclamation marks.
RuleInputs ==
    [ blank : {FALSE}, matches : MatchCounts, mods : SUBSET intensity_modifiers,
      exclamations : ExclamationCounts, half_up : BOOLEAN ]
        \cup {NoRuleCall.input}

InitRule ==
    /\ InitCtx
    /\ InitTurnVars
    /\ InitPoolVars
    /\ InitWinVars
    /\ InitIsoVars
    /\ InitStreamVars
    /\ InitRetrVars
    /\ \E input \in RuleInputs : rb = [NoRuleCall EXCEPT !.input = input]
    /\ jc = NoJsonCall
    /\ wc = NoSaves
    /\ calls = 0
    /\ single = NoSingleTurn
    /\ shut = NotShut
    /\ emo = [input |-> [matches |-> 0, mods |-> {}, exclamations |-> 0, half_up |-> FALSE,
                         has_llm |-> FALSE]] @@ NoAnalysis
    /\ pass = NoPass
    /\ ui = NoReply
    /\ memory = [i \in Instances |-> NoMemory]
    /\ db = Database

\* analyze_rule_based(text): None for a blank text, else the rule pass.
rule_based_call ==
    /\ rb.pc = "idle"
    /\ rb' = [rb EXCEPT !.pc = "returned",
                        !.result = IF rb.input.blank THEN NoRuleResult
                                   ELSE analyze_rule_based(rb.input.matches, rb.input.mods,
                                                           rb.input.exclamations,
                                                           rb.input.half_up)]
    /\ UNCHANGED << jc, wc, calls, single, shut, emo, pass, ui, ctxVars, memVars, turnVars, poolVars, winVars,
                    isoVars, streamVars, retrVars >>

NextRule == rule_based_call

SpecRule == InitRule /\ [][NextRule]_vars

(***************************************************************************)
(* The streaming turn with the pool closing its session: remove_agent or   *)
(* close_all called from another thread once the background thread exists  *)
(***************************************************************************)
\* remove_agent(user_id) / close_all(): agent.close() runs
\* MemoryManager.close, which saves the working context; nothing waits for
\* the background thread.  The session object stays reachable from the
\* thread's save agent, and a later store write reopens the connection.
pool_close_streaming_session ==
    /\ bg.status /= "none"
    /\ ~shut.closed
    /\ db' = close(memory[runner], db)
    /\ shut' = [closed |-> TRUE, flushed |-> to_dict(memory[runner].working_context),
                nWrites |-> Len(writes)]
    /\ UNCHANGED << jc, wc, rb, calls, single, memory, emo, pass, ui, ctxVars, turnVars, poolVars, winVars,
                    isoVars, streamVars, retrVars >>

NextClose == NextStream \/ pool_close_streaming_session

SpecClose == InitTurn /\ [][NextClose]_vars

(***************************************************************************)
(* EmotionalAgent.chat_stream_final_only in single mode, on session 1      *)
(***************************************************************************)
max_iterations == 5

\* The text the final generation streams: nothing, or a reply.
StreamedTexts == {EmptyStr, 21}

\* Steps 1 to 3: the emotion analysis (under try/except; a result updates
\* the working context), the search, and save_message(role="user").
single_start ==
    /\ single.pc = "idle"
    /\ \E user_message \in UserInputs, analysed \in BOOLEAN, ok \in BOOLEAN :
         LET m == IF analysed
                  THEN [memory[1] EXCEPT !.working_context = update_emotion(@, 1, 5)]
                  ELSE memory[1]
             r == save_message(m, db, "user", user_message, ok)
         IN /\ memory' = [memory EXCEPT ![1] = r.mem]
            /\ db' = r.db
            /\ single' = [NoSingleTurn EXCEPT !.pc = IF r.raised THEN "raised" ELSE "loop",
                                              !.user_message = user_message,
                                              !.user_saved = ~r.raised]
    /\ UNCHANGED << jc, wc, rb, calls, shut, emo, pass, ui, ctxVars, turnVars, poolVars, winVars,
                    isoVars, streamVars, retrVars >>

\* One pass of `while iteration < max_iterations`: the generation call
\* raises; or it asks for tools, which are run (a failing tool returns its
\* error as text) and the loop goes on, ending without a reply when the
\* passes are used up; or it asks for none, the reply is streamed, saved
\* when it is not empty, and the loop is left.
single_iteration ==
    /\ single.pc = "loop"
    /\ single.iteration < max_iterations
    /\ \/ /\ single' = [single EXCEPT !.pc = "raised", !.iteration = @ + 1,
                                      !.generations = @ + 1]
          /\ UNCHANGED memVars
       \/ /\ single' = [single EXCEPT !.iteration = @ + 1, !.generations = @ + 1,
                                      !.pc = IF single.iteration + 1 < max_iterations
                                             THEN "loop" ELSE "returned"]
          /\ UNCHANGED memVars
       \/ \E text \in StreamedTexts, streamed \in BOOLEAN, ok \in BOOLEAN :
            LET r == IF streamed /\ Truthy(text)
                     THEN save_message(memory[1], db, "assistant", text, ok)
                     ELSE [mem |-> memory[1], db |-> db, raised |-> ~streamed]
            IN /\ memory' = [memory EXCEPT ![1] = r.mem]
               /\ db' = r.db
               /\ single' = [single EXCEPT !.iteration = @ + 1, !.generations = @ + 1,
                                           !.yielded = text,
                                           !.pc = IF r.raised THEN "raised" ELSE "returned"]
    /\ UNCHANGED << jc, wc, rb, calls, shut, emo, pass, ui, ctxVars, turnVars, poolVars, winVars,
                    isoVars, streamVars, retrVars >>

NextSingle == single_start \/ single_iteration

SpecSingle == InitTurn /\ [][NextSingle]_vars

(***************************************************************************)
(* Claims                                                                  *)
(***************************************************************************)
\* The nodes that may run right after node a.
Successors(a) ==
    CASE a = "emotion"           -> {"memory"}
      [] a = "memory"            -> {"response"}
      [] a = "response"          -> {"review"}
      [] a = "review"            -> {"finalize", "increment_rewrite"}
      [] a = "increment_rewrite" -> {"response"}
      [] a = "finalize"          -> {"save"}
      [] OTHER                   -> {}

Count(node) == Cardinality({i \in 1..Len(trace) : trace[i] = node})

Ended == pc \in {"done", "raised"}

\* C1: a turn never produces more than max_rewrites + 1 drafts (3 with the
\* default of 2), and a turn that has started always ends: chat returns, or
\* an exception leaves it.
C1_Terminates ==
    /\ [](Len(produced) <= max_rewrites + 1)
    /\ (pc = "emotion") ~> Ended

\* A turn that returned after using the whole budget.
C1_Witness == pc = "done" /\ Len(produced) = max_rewrites + 1

\* C2: when every review of the turn was {approved: false, score: 4}, the
\* turn reaches finalize after exactly 3 drafts, with rewrite_count = 2.
C2_AlwaysReject ==
    (InSeq("finalize", trace) /\ all_rejected)
        => (Len(produced) = 3 /\ state.rewrite_count = 2 /\ Count("review") = 3)

C2_Witness == pc = "done" /\ all_rejected /\ Len(produced) = 3

\* C3: the nodes of a turn run in the order emotion, memory, response, review,
\* then finalize or (increment_rewrite, response, review) again, then save;
\* every response is followed by review, finalize and save run at most once,
\* save only after finalize, and a turn that returned ran both exactly once.
C3_StepOrder ==
    /\ trace /= << >> => trace[1] = "emotion"
    /\ \A i \in 1..(Len(trace) - 1) : trace[i + 1] \in Successors(trace[i])
    /\ Count("finalize") <= 1
    /\ Count("save") <= 1
    /\ \A i \in 1..Len(trace) :
         trace[i] = "save" => \E j \in 1..(i - 1) : trace[j] = "finalize"
    /\ pc \in {"end", "done"} =>
         /\ Count("finalize") = 1
         /\ Count("save") = 1
         /\ trace[Len(trace)] = "save"
         /\ Count("review") = Count("response")

\* A turn that returned after two trips round the rewrite loop.
C3_Witness == pc = "done" /\ Count("increment_rewrite") = 2 /\ Count("save") = 1

\* C4: final_response is the latest draft; the assistant message save_node
\* stores, the text the save agent is given and the content chat returns are
\* all final_response.
C4_FinalIsLatestDraft ==
    /\ InSeq("finalize", trace) => state.final_response = produced[Len(produced)]
    /\ save_arg /= None => save_arg = state.final_response
    /\ pc \in {"end", "done"} =>
         /\ save_arg = state.final_response
         /\ \E i \in 1..Len(db.messages) :
              /\ db.messages[i].role = "assistant"
              /\ db.messages[i].content = state.final_response
              /\ \A j \in (i + 1)..Len(db.messages) : db.messages[j].role /= "assistant"
    /\ pc = "done" => returned = state.final_response

\* A turn that returned a rewrite differing from its first draft.
C4_Witness ==
    /\ pc = "done"
    /\ Len(produced) >= 2
    /\ produced[1] /= produced[Len(produced)]
    /\ returned = produced[Len(produced)]

\* C5: no exception raised in emotion, memory, review or save ends the turn.
C5_ExceptionsContained ==
    raised_in \notin {"emotion", "memory", "review", "save"}

Cached(i) == \E u \in Users : agents[u] = i

\* The session objects of user u that are open: constructed, close() never called.
Live(u) == {i \in 1..nInst : inst[i].user_id = u /\ inst[i].close_calls = 0}

\* C6: whatever the interleaving of get_agent, remove_agent and close_all
\* calls, a user id has at most one open session object, the cached object
\* of a user id belongs to it, and every get_agent(id) since the last
\* eviction of id returned that one cached object.
C6_SingleSession ==
    \A u \in Users :
        /\ Cardinality(Live(u)) <= 1
        /\ agents[u] /= 0 => inst[agents[u]].user_id = u
        /\ served[u] \subseteq ({agents[u]} \ {0})
        /\ Cardinality(served[u]) <= 1

\* Three threads called get_agent("u1"); one object was constructed and each
\* of them holds it.
C6_Witness ==
    /\ nInst = 1
    /\ agents["u1"] = 1
    /\ \A t \in Threads : tret[t] = 1 /\ tpc[t] = "idle"

\* A thread inside close_all has already closed the session of user u.
ClosingAll(u) == \E t \in Threads : tpc[t] = "ca_loop" /\ u \in tloc[t]

\* C7: close() is called at most once on a session object: never while it is
\* cached (but by a close_all still under way), exactly once when it has been
\* evicted.  remove_agent(id) ends with no entry for id and close_all with no
\* entry at all, whether or not close() raised, and an entry that appears
\* holds a session object constructed for it then.
C7_CloseOnce ==
    /\ [](\A i \in 1..nInst :
            /\ inst[i].close_calls <= 1
            /\ Cached(i) => (inst[i].close_calls = 0 \/ ClosingAll(inst[i].user_id))
            /\ ~Cached(i) => inst[i].close_calls = 1)
    /\ [][\A t \in Threads :
            /\ (tpc[t] = "rm_close" /\ tpc'[t] = "idle")
                  => /\ agents'[top[t].user_id] = 0
                     /\ inst'[agents[top[t].user_id]].close_calls = 1
            /\ (tpc[t] = "ca_loop" /\ tpc'[t] = "idle")
                  => \A u \in Users : agents'[u] = 0
            /\ \A u \in Users :
                 (agents'[u] /= agents[u] /\ agents'[u] /= 0)
                     => (agents'[u] = nInst + 1 /\ inst'[agents'[u]].close_calls = 0)]_vars

\* A session whose close() raised was evicted all the same, and get_agent
\* then constructed another one for the same user id.
C7_Witness ==
    \E i, j \in 1..nInst :
        /\ inst[i].user_id = inst[j].user_id
        /\ inst[i].close_calls = 1
        /\ inst[i].close_raised
        /\ ~Cached(i)
        /\ Cached(j)
        /\ inst[j].close_calls = 0

\* C9: after any sequence of add_recent_event / add_follow_up / update_emotion
\* calls, recent_events (cap 10), follow_ups (cap 5) and emotion_history
\* (cap 20) never exceed their caps, and each is exactly the newest entries
\* appended to it, in the order they were appended (the oldest are evicted).
\* A call that re-adds an entry still present appends nothing.
C9_BoundedLists ==
    /\ Len(ctx.recent_events) <= MAX_RECENT_EVENTS
    /\ Len(ctx.follow_ups) <= MAX_FOLLOW_UPS
    /\ Len(ctx.emotion_history) <= MAX_EMOTION_HISTORY
    /\ ctx.recent_events = LastN(evLog, MAX_RECENT_EVENTS)
    /\ ctx.follow_ups = LastN(fuLog, MAX_FOLLOW_UPS)
    /\ ctx.emotion_history = LastN(emoLog, MAX_EMOTION_HISTORY)

\* Every one of the three lists has evicted an entry.
C9_Witness ==
    /\ Len(evLog) > MAX_RECENT_EVENTS
    /\ Len(fuLog) > MAX_FOLLOW_UPS
    /\ Len(emoLog) > MAX_EMOTION_HISTORY
    /\ Len(ctx.recent_events) = MAX_RECENT_EVENTS
    /\ Len(ctx.follow_ups) = MAX_FOLLOW_UPS
    /\ Len(ctx.emotion_history) = MAX_EMOTION_HISTORY

\* The stored messages of user_id, oldest first, as queue entries.
RECURSIVE StoredOf(_, _)
StoredOf(rows, user_id) ==
    IF rows = << >> THEN << >>
    ELSE (IF Head(rows).user_id = user_id THEN << QueueEntry(Head(rows)) >> ELSE << >>)
             \o StoredOf(Tail(rows), user_id)

\* C10: the queue never holds more than MAX_QUEUE_SIZE (10) messages; it is
\* always the newest 10 of the messages appended to it, in order, so a push
\* beyond 10 evicts the oldest; and right after the session is initialised it
\* holds exactly the last 10 stored messages of its user, oldest first.
C10_Window ==
    /\ Len(memory[1].queue) <= MAX_QUEUE_SIZE
    /\ memory[1].queue = LastN(qLog, MAX_QUEUE_SIZE)
    /\ fresh => memory[1].queue =
                    LastN(StoredOf(db.messages, memory[1].user_id), MAX_QUEUE_SIZE)

\* The session was initialised from more than 10 stored messages written at
\* different times.
C10_Witness ==
    /\ fresh
    /\ Len(StoredOf(db.messages, memory[1].user_id)) > MAX_QUEUE_SIZE
    /\ Len(memory[1].queue) = MAX_QUEUE_SIZE
    /\ db.messages[1].created_at < db.messages[Len(db.messages)].created_at
    /\ nOff > 0

\* The user a text was written for (its tens digit names the session).
OwnerOf(content) == IF content \div 10 = 1 THEN "u1" ELSE "u2"

\* C8: an operation run on one user's session leaves the other session's
\* working context and queue as they were; a session's queue only ever holds
\* its own user's messages, also after it is initialised again from the
\* shared store; and the rows a recent-message read or a keyword search
\* returns to a session are all rows of its own user.
C8_Isolation ==
    /\ [][\A s \in Sessions : actor' /= s => memory'[s] = memory[s]]_vars
    /\ [](\A s \in Sessions :
            /\ \A i \in 1..Len(memory[s].queue) :
                 OwnerOf(memory[s].queue[i].content) = memory[s].user_id
            /\ memory[s].working_context.user_name \in {None, 10 * s + 5}
            /\ \A i \in 1..Len(memory[s].working_context.recent_events) :
                 memory[s].working_context.recent_events[i] = 10 * s + 4)
    /\ [](\A i \in 1..Len(lastRead.rows) :
            lastRead.rows[i].user_id = memory[lastRead.by].user_id)

\* User u2's session has just searched a keyword that a stored message of u1
\* contains too, and found its own message.
C8_Witness ==
    /\ lastRead.by = 2
    /\ lastRead.rows /= << >>
    /\ \E i \in 1..Len(db.messages) :
         /\ db.messages[i].user_id = "u1"
         /\ Contains(db.messages[i].content, lastRead.rows[1].content % 10)
    /\ memory[1].queue /= << >>

\* C11: async_save_memory hands the save agent's run to a background thread
\* and returns without waiting for it; the run is entered once per call, and
\* when it fails the failure is logged only: the caller is not raised into
\* and the run is not entered again.
C11_AsyncSave ==
    /\ stream.pc = "async_return" => ENABLED stream_return
    /\ bg.runs <= 1
    /\ bg.status \in {"running", "done", "failed"} => bg.runs = 1
    /\ bg.status \in {"started", "running", "done", "failed"} =>
          stream.pc \in {"async_return", "done"}

\* The caller has its return while save_agent.run is still going.
C11_Witness == stream.pc = "done" /\ bg.status = "running" /\ bg.runs = 1

\* C12: the fan-out call neither returns nor raises to its caller before
\* both branches, emotion classification and memory retrieval, have
\* completed or failed; a first branch that fails does not cut the wait for
\* the second short.
C12_WaitsForBoth ==
    fan.pc \in {"returned", "raised"} =>
        FutureDone(fan.emotion) /\ FutureDone(fan.memory)

\* The emotion branch failed, and the call raised only once retrieval was through.
C12_Witness ==
    /\ fan.pc = "raised"
    /\ fan.emotion.status = "failed"
    /\ fan.memory.status = "ok"

\* C14: when either agent's run raises inside run_parallel_agents, the call
\* raises to its caller: it returns only when both runs returned.
C14_RaisesWhenEitherFails ==
    /\ fan.pc = "returned" => fan.emotion.status = "ok" /\ fan.memory.status = "ok"
    /\ (fan.pc \in {"exit", "exit_raising"} /\ "failed" \in {fan.emotion.status, fan.memory.status})
          => fan.pc = "exit_raising"

\* Retrieval raised while emotion classification succeeded, and
\* run_parallel_agents raised.
C14_Witness ==
    /\ fan.kind = "agents"
    /\ fan.pc = "raised"
    /\ fan.emotion.status = "ok"
    /\ fan.memory.status = "failed"

\* C13: in the streaming turn, a fan-out branch (emotion classification or
\* memory retrieval) that fails only degrades that branch's output to an
\* empty or default value: the fan-out does not raise and the turn goes on
\* to the draft instead of ending there.
C13_BranchFailureDegrades ==
    (fan.kind = "preprocess" /\ "failed" \in {fan.emotion.status, fan.memory.status}) =>
        /\ fan.pc # "raised"
        /\ ~(stream.pc = "raised" /\ strace = << "fan_out", "after_fan_out" >>)

\* C15: a completed turn, synchronous (chat) or streaming (chat_stream), has
\* appended to the store exactly one user message carrying the user input
\* and exactly one assistant message carrying the final response, the user
\* message first.
C15_OneUserOneAssistant ==
    /\ pc = "done" =>
         StoredOf(db.messages, "u1") =
            << [role |-> "user", content |-> state.user_input],
               [role |-> "assistant", content |-> state.final_response] >>
    /\ stream.pc = "done" =>
         StoredOf(db.messages, "u1") =
            << [role |-> "user", content |-> stream.user_input],
               [role |-> "assistant", content |-> stream.full_response] >>

\* A streaming turn that yielded two chunks and completed.
C15_Witness ==
    /\ stream.pc = "done"
    /\ stream.chunks = 2
    /\ Len(db.messages) = 2
    /\ db.messages[2].content = stream.full_response

\* C16: the streaming turn runs the same state machine as the synchronous
\* turn, the quality gate and the revise loop included: a streaming turn
\* that completed has put its draft through the review step before storing
\* it as the assistant message.
C16_SameStateMachine ==
    stream.pc = "done" =>
        \E i \in 1..Len(strace) :
            /\ strace[i] = "review"
            /\ \E j \in (i + 1)..Len(strace) : strace[j] = "save_assistant"

\* C17: in the streaming turn every store write of the turn (the user
\* message, the assistant message, the extraction pass) is made by the
\* background task, after the draft has completed: the caller's path makes
\* no store write before the last chunk has been produced.
C17_PersistInBackground ==
    \A i \in 1..Len(writes) :
        /\ writes[i].by = "background"
        /\ writes[i].draft_done

FirstIndex(seq, x) == CHOOSE i \in 1..Len(seq) : seq[i] = x /\ \A j \in 1..(i - 1) : seq[j] # x

\* The lines of the text returned: the hits, and the blank line and the
\* header line search_relevant_context puts before them.
OutputLines == Len(search.output) + (IF search.header THEN 2 ELSE 0)

\* C19: the context block a retrieval returns never holds two equal
\* formatted lines and never more than 10 lines, however many hits the
\* sources found; a line stands where it was first found, and the lines
\* kept are the first found.
C19_NoDuplicatesCap10 ==
    search.pc = "returned" =>
        /\ \A i, j \in 1..Len(search.output) : i # j => search.output[i] # search.output[j]
        /\ OutputLines <= 10
        /\ \A i \in 1..Len(search.output) : InSeq(search.output[i], search.results)
        /\ \A i, j \in 1..Len(search.output) :
              i < j => FirstIndex(search.results, search.output[i])
                          < FirstIndex(search.results, search.output[j])
        /\ \A i \in 1..Len(search.output), k \in 1..Len(search.results) :
              k < FirstIndex(search.results, search.output[i])
                 => InSeq(search.results[k], search.output)

\* Every source found more than its share: 24 hits, duplicates among them,
\* cut to 10 lines.
C19_Witness ==
    /\ search.pc = "returned"
    /\ req.mode = "agent"
    /\ Len(search.results) = 24
    /\ \E i, j \in 1..Len(search.results) : i < j /\ search.results[i] = search.results[j]
    /\ Len(search.output) = 10

\* C20: _execute_search never raises, and a source that fails only loses
\* its own hits: the hits of every other requested source, those searched
\* after the failing one included, are in the text returned (as far as the
\* cap of 10 lines allows).
C20_SourceFailuresIsolated ==
    /\ req.mode = "agent" => search.pc # "raised"
    /\ (req.mode = "agent" /\ search.pc = "returned" /\ req.nq > 0) =>
          \A s \in SearchTypes(req) \ {req.fail} :
             LET hits == CASE s = "events" -> EventLines(req)
                           [] s = "messages" -> MessageLines(req)
                           [] OTHER -> EmotionLines(req)
             IN \A i \in 1..Len(hits) :
                  InSeq(hits[i], search.output) \/ Len(search.output) = MAX_RESULTS

HighConfidence == emo.rule.found /\ emo.rule.confidence >= 70
LowConfidence == ~emo.rule.found \/ emo.rule.confidence < 50

\* C21: analyze routes by the rule result's confidence.  At 0.7 or more the
\* rule result is returned and the generator is not called.  With no rule
\* result or one under 0.5, and a generator at hand, the generator is called
\* (once) and the result parsed from its reply is the one returned.  In
\* every other case the rule result, or None, is returned and the generator
\* is not called.
C21_Routing ==
    emo.pc \in {"returned", "raised"} =>
        /\ HighConfidence => emo.called = 0 /\ emo.result = FromRule(emo.rule)
        /\ (~HighConfidence /\ LowConfidence /\ emo.input.has_llm) =>
              /\ emo.called = 1
              /\ emo.reply.kind = "object" => emo.result.source = "llm"
              /\ ~LlmUsable(emo.reply) => emo.result = LastResort(emo.rule)
        /\ (~HighConfidence /\ ~(LowConfidence /\ emo.input.has_llm)) =>
              /\ emo.called = 0
              /\ emo.pc = "returned"
              /\ emo.result = LastResort(emo.rule)

\* A weak rule result (under 0.5) passed over for the generator's.
C21_Witness ==
    /\ emo.pc = "returned"
    /\ emo.rule.found /\ emo.rule.confidence < 50
    /\ emo.called = 1
    /\ emo.result.source = "llm"

Trust == memory[1].working_context.trust_level
UserRows(d) == Cardinality({i \in 1..Len(d.messages) : d.messages[i].role = "user"})

\* C22: the trust score stays within [0, 0.95]; it never goes down; each
\* user message that is stored raises it by 0.01 until it is 0.95, and
\* nothing else (an assistant message, a message whose INSERT failed, a
\* restart) changes it.
C22_Trust ==
    /\ [](Trust >= 0 /\ Trust <= 95)
    /\ [][ /\ Trust' >= Trust
           /\ UserRows(db') = UserRows(db) + 1 => Trust' = Min(95, Trust + 1)
           /\ UserRows(db') = UserRows(db) => Trust' = Trust ]_vars

\* The score is at 0.95 and a further user message has left it there.
C22_Witness ==
    /\ Trust = 95
    /\ memory[1].working_context.interaction_count = 46
    /\ UserRows(db) = 46

\* C23: a restart (close, then a new session initialised for the same user
\* on the same store) gives the new session the WorkingContext that was held
\* at close.
C23_RestartRoundTrip ==
    [][(~fresh /\ fresh') => memory'[1].working_context = memory[1].working_context]_vars

\* The same, for users whose WorkingContext holds a name at close (step 2 of
\* load_working_context is skipped).
C23_NamedRoundTrip ==
    [][(~fresh /\ fresh' /\ Truthy(memory[1].working_context.user_name))
          => memory'[1].working_context = memory[1].working_context]_vars

\* The step is review_node taking the reviewer's reply `reply`: the state it
\* leaves holds the validated verdict and suggestion of that reply.
ReviewedBy(reply) ==
    /\ pc = "review"
    /\ pc' \in {"finalize", "increment_rewrite"}
    /\ state'.review_approved = validate_result(reply, state.ai_response).approved
    /\ state'.review_feedback = validate_result(reply, state.ai_response).suggestion

\* C24: when the review's score is below 6 (a score that is not a number
\* counts as 5), the verdict is "not approved" whatever approved value the
\* reviewer returned, and the draft goes to finalize only when the rewrite
\* budget is spent.
C24_LowScoreRejected ==
    [][\A reply \in ReviewReplies :
          (ReviewedBy(reply) /\ validate_result(reply, state.ai_response).score < 6)
             => /\ ~state'.review_approved
                /\ pc' = "finalize" => BudgetSpent(state)]_vars

\* A review whose reply said approved with a score below 6 has sent the
\* draft back for a rewrite.
C24_Witness ==
    /\ pc = "increment_rewrite"
    /\ ~state.review_approved
    /\ ~BudgetSpent(state)
    /\ trace[Len(trace)] = "review"
    /\ \E reply \in ReviewReplies :
         /\ reply.approved = "true"
         /\ validate_result(reply, produced[Len(produced)]).score < 6
         /\ validate_result(reply, produced[Len(produced)]).suggestion = state.review_feedback

\* C25: of the proposed save actions only the first three are applied, each
\* of them is (whether or not an earlier one raised), and the pass raises
\* only when the model call does, never because of an action.
C25_ThreeIndependentActions ==
    /\ pass.called \subseteq 1..3
    /\ pass.pc = "raised" => pass.called = {}
    /\ pass.pc = "returned" => pass.called = 1..Min(3, Len(pass.actions))

\* The first action raised and the second one was applied: its life event
\* is in the store.
C25_Witness ==
    /\ pass.pc = "returned"
    /\ 1 \in pass.raised
    /\ 2 \in pass.called \ pass.raised
    /\ pass.actions[2].type = "life_event"
    /\ \E i \in 1..Len(db.life_events) : db.life_events[i].title = pass.actions[2].value

\* C26: when the draft step raised, what the caller is given is an apology
\* that does not contain the text of the error.
C26_DraftFailureGeneric ==
    (raised_in = "response" /\ ui.kind /= "none")
        => ui.kind = "apology" /\ ~Contains(ui.text, ErrorText)

\* C27: the draft step drafts afresh when rewrite_count is 0 and rewrites
\* the previous draft on every entry with rewrite_count > 0, whatever that
\* draft was.
C27_RewriteAfterFirstDraft ==
    [][(pc = "response" /\ pc' \in {"review", "raised"})
          => (IsRewrite(state) <=> state.rewrite_count > 0)]_vars

\* The same for entries whose previous draft is not empty.
C27_RewriteOfNonEmptyDraft ==
    [][(pc = "response" /\ pc' \in {"review", "raised"} /\ Truthy(state.ai_response))
          => (IsRewrite(state) <=> state.rewrite_count > 0)]_vars

\* The step is emotion_node with a classifier reply that could not be parsed
\* ({} after the parse attempts): the result is the default one and no reply
\* that parsed gives it.
UnparsedEmotionStep ==
    /\ pc = "emotion"
    /\ pc' = "memory"
    /\ \E reply \in EmotionReplies :
         reply.kind = "empty" /\ state'.emotion_result = EmotionAgent_run(reply)
    /\ \A reply \in EmotionReplies :
         reply.kind /= "empty" => state'.emotion_result /= EmotionAgent_run(reply)

\* C29: when the classifier's output could not be parsed, the emotion step
\* leaves current_emotion and emotion_history of the WorkingContext as they
\* were.
C29_NoMergeWithoutClassification ==
    [][UnparsedEmotionStep =>
          /\ memory'[runner].working_context.current_emotion
                = memory[runner].working_context.current_emotion
          /\ memory'[runner].working_context.emotion_history
                = memory[runner].working_context.emotion_history]_vars

\* What the rubric says of a draft: no banned pattern, at most 200 characters.
RubricPasses(draft) == ~HasForbiddenPattern(draft) /\ TextLen(draft) <= 200

\* A reply with a field missing ({} has all of them missing).
MissingFields(reply) ==
    reply.approved = "missing" \/ reply.score_kind = "missing" \/ reply.suggestion = None

\* C28 as stated: whenever the reviewer's output is missing fields, the
\* verdict is the rubric's.
C28_MissingFieldsRubric ==
    [][\A reply \in ReviewReplies :
          (ReviewedBy(reply) /\ MissingFields(reply))
             => state'.review_approved = RubricPasses(state.ai_response)]_vars

\* C28, amended: when the reviewer's output has no approved field and no
\* score below 6 (a score that is not a number counts as 5), the verdict is
\* the rubric's: not approved for a draft with a banned pattern or more than
\* 200 characters, approved for any other.
C28_MissingApprovedRubric ==
    [][\A reply \in ReviewReplies :
          (/\ ReviewedBy(reply)
           /\ reply.approved = "missing"
           /\ reply.score_kind = "missing" \/ (reply.score_kind = "number" /\ reply.score >= 6))
             => state'.review_approved = RubricPasses(state.ai_response)]_vars

\* The reviewer's output was empty and the draft, longer than 200
\* characters, was not approved.
C28_Witness ==
    /\ pc = "increment_rewrite"
    /\ trace[Len(trace)] = "review"
    /\ TextLen(state.ai_response) > 200
    /\ ~state.review_approved
    /\ state.review_feedback = EmptyStr

Lines(seq) == {seq[i] : i \in 1..Len(seq)}

\* What the keyword search of a type finds for the request, and what its
\* similarity search can find in the store.
KeywordFound(type) ==
    IF type = "events" THEN Lines(FirstN(EventHits, req.nE))
    ELSE Lines(KeywordMessageLines(req, Min(req.nq, QUERY_CAP)))
SimilarInStore(type) ==
    IF type = "events" THEN Lines(FirstN(EventVectorHits, req.nEV))
    ELSE Lines(FirstN(VectorHits, req.nV))

\* Keyword first for a type: its keyword hits are in `results` whether or not
\* an embedding is to be had, and lines of its similarity search are there
\* only when the keyword search found nothing and an embedding was to be had.
KeywordFirst(type) ==
    /\ KeywordFound(type) \subseteq Lines(search.results)
    /\ (Lines(search.results) \cap SimilarInStore(type)) /= {}
          => KeywordFound(type) = {} /\ req.emb

\* A search by _execute_search that went through every source.
SearchDone ==
    search.pc = "returned" /\ req.mode = "agent" /\ req.nq > 0 /\ req.fail = "none"

\* C30: for each requested type, events and messages, the keyword search
\* comes first and the similarity search is used only when it found nothing
\* and an embedding service is available; the keyword hits do not depend on
\* the embedding service.
C30_KeywordFirst ==
    SearchDone => \A type \in SearchTypes(req) \cap {"events", "messages"} : KeywordFirst(type)

\* The same for messages alone.
C30_MessagesKeywordFirst ==
    (SearchDone /\ "messages" \in SearchTypes(req)) => KeywordFirst("messages")

\* C31: a _call_llm_json call makes at most max_retries + 1 = 3 generation
\* calls; every call after the first follows a content that did not parse
\* and is sent the messages ending with that content and the instruction;
\* the call returns the value of the first content that parses, or the
\* empty result after three contents that do not; and a started call ends.
C31_BoundedRetries ==
    /\ [](/\ jc.calls <= max_retries + 1
          /\ jc.calls = Len(jc.sent)
          /\ \A k \in 2..Len(jc.sent) :
               /\ ~parse_json(jc.replies[k - 1]).ok
               /\ jc.sent[k] = jc.sent[k - 1] \o << "assistant", "instruction" >>
          /\ jc.pc = "returned" =>
               LET n == Len(jc.replies)
               IN /\ n = jc.calls
                  /\ \A k \in 1..(n - 1) : ~parse_json(jc.replies[k]).ok
                  /\ IF parse_json(jc.replies[n]).ok
                     THEN jc.result = [kind |-> "parsed",
                                       value |-> parse_json(jc.replies[n]).value]
                     ELSE n = max_retries + 1
                          /\ jc.result = [kind |-> "empty", value |-> "none"])
    /\ (jc.pc = "call" ~> jc.pc \in {"returned", "raised"})

\* Two contents did not parse (one of them had an object outside its code
\* block), the third call was made and its content parsed.
C31_Witness ==
    /\ jc.pc = "returned"
    /\ jc.calls = 3
    /\ jc.result.kind = "parsed"
    /\ jc.replies[1] = [fence |-> TRUE, inner |-> "prose", outer |-> "object"]

\* No entry occurs twice in s.
NoTwoEqual(s) == \A i, j \in 1..Len(s) : s[i] = s[j] => i = j

\* C32: after any sequence of add_recent_event and add_follow_up calls on a
\* WorkingContext, recent_events holds no title twice and follow_ups holds
\* no item twice.
C32_NoDuplicates ==
    /\ NoTwoEqual(ctx.recent_events)
    /\ NoTwoEqual(ctx.follow_ups)

\* The first title and the first item were each appended, evicted and
\* appended again, and each is in its list once.
C32_Witness ==
    /\ Cardinality({i \in 1..Len(evLog) : evLog[i] = 1}) = 2
    /\ Cardinality({i \in 1..Len(fuLog) : fuLog[i] = 1}) = 2
    /\ Cardinality({i \in 1..Len(ctx.recent_events) : ctx.recent_events[i] = 1}) = 1
    /\ Cardinality({i \in 1..Len(ctx.follow_ups) : ctx.follow_ups[i] = 1}) = 1

\* C33: after any sequence of save_working_context calls the table holds at
\* most one row for each user id, and get_working_context(u) returns the
\* content of the last save for u (nothing when there was none), whatever
\* was saved for other users.
C33_Upsert ==
    \A u \in Users :
        /\ Cardinality(RowsOf(db.working_contexts, u)) <= 1
        /\ Repository_get_working_context(db, u) = wc[u]

\* Both users have a row, u1's first, and the two rows hold different
\* contents: each user's last save.
C33_Witness ==
    /\ Len(db.working_contexts) = 2
    /\ db.working_contexts[1].user_id = "u1"
    /\ db.working_contexts[1].content.interaction_count = 2
    /\ db.working_contexts[2].content.interaction_count = 0
    /\ wc["u1"].content.user_name = 5

\* C34: when the generation call of _llm_analyze raises, or its content is
\* not JSON, analyze does not raise: it returns the rule result, or None
\* when the rule pass found nothing.
C34_FallbackFailureSwallowed ==
    (emo.called = 1 /\ emo.reply.kind \in {"raises", "unparsable"}) =>
        /\ emo.pc = "returned"
        /\ emo.result = IF emo.rule.found THEN FromRule(emo.rule) ELSE NoResult

\* The generation call raised while a weak rule result was at hand, and
\* that rule result was returned.
C34_Witness ==
    /\ emo.pc = "returned"
    /\ emo.reply.kind = "raises"
    /\ emo.rule.found
    /\ emo.result.source = "rule"
    /\ emo.result.confidence < 50

\* C35: the rule pass returns no signal, or a result whose intensity is in
\* [0.1, 1.0] and whose confidence is in [0, 0.95], for every number of
\* matched keywords, every set of amplifiers and dampers and every number of
\* exclamation marks.
C35_RuleResultRanges ==
    rb.pc = "returned" =>
        \/ ~rb.result.found /\ (rb.input.blank \/ rb.input.matches = 0)
        \/ /\ rb.result.found
           /\ rb.result.intensity >= 10 /\ rb.result.intensity <= 100
           /\ rb.result.confidence >= 0 /\ rb.result.confidence <= 95

\* One keyword with every damper and no amplifier: the sum is under 0.1 and
\* the intensity returned is 0.1.
C35_Witness ==
    /\ rb.pc = "returned"
    /\ rb.input.matches = 1
    /\ rb.input.mods = {m \in intensity_modifiers : m.value < 0}
    /\ rb.input.exclamations = 0
    /\ rb.result.intensity = 10

\* C36: while every save_message of session 1 has been stored, its queue is
\* the last min(10, n) stored messages of its user (role and content),
\* oldest first, n being the number of that user's stored messages: after
\* every save and after every close / init restart.
C36_WindowIsStoredTail ==
    nOff = 0 =>
        LET stored == StoredOf(db.messages, memory[1].user_id)
        IN /\ memory[1].queue = LastN(stored, MAX_QUEUE_SIZE)
           /\ Len(memory[1].queue) = Min(MAX_QUEUE_SIZE, Len(stored))

\* More than 10 messages are stored, some of them in the same second; the
\* session was restarted along the way and has saved messages since.
C36_Witness ==
    /\ nOff = 0
    /\ ~fresh
    /\ Len(StoredOf(db.messages, memory[1].user_id)) > MAX_QUEUE_SIZE
    /\ Len(qLog) < Len(StoredOf(db.messages, memory[1].user_id))
    /\ Len(qLog) > MAX_QUEUE_SIZE
    /\ \E i \in 1..(Len(db.messages) - 1) :
         db.messages[i].created_at = db.messages[i + 1].created_at
    /\ db.messages[1].created_at < db.messages[Len(db.messages)].created_at

C37_FinishedBeforeClose ==
    [][(~shut.closed /\ shut'.closed /\ bg.status = "done") =>
          /\ shut'.flushed = to_dict(memory[runner].working_context)
          /\ Repository_get_working_context(db', memory[runner].user_id).content
                 = shut'.flushed]_vars

\* C38: when _create_agent raises inside get_agent(id), the pool's map is
\* left as it was, with no entry for id; get_agent ends with the exception
\* for its caller, no session returned, and the lock released; and a
\* get_agent(id) that finds no entry always goes on to construct one, also
\* for an id whose construction has raised before.
C38_FailedCreateLeavesNoEntry ==
    [][\A t \in Threads :
         /\ (tpc[t] = "get_create" /\ tpc'[t] = "idle") =>
               /\ agents' = agents
               /\ agents'[top[t].user_id] = 0
               /\ tret'[t] = Raised(top[t].user_id)
               /\ lock = t /\ lock' = "free"
               /\ inst' = inst /\ nInst' = nInst
         /\ (tpc[t] = "get_check" /\ tpc'[t] /= "get_check") =>
               (tpc'[t] = "get_create" <=> agents[top[t].user_id] = 0)]_vars

\* One thread's get_agent("u1") raised; the only session ever constructed
\* is u1's, so it was constructed by a later get_agent("u1"), which
\* returned it.
C38_Witness ==
    /\ nInst = 1
    /\ agents["u1"] = 1
    /\ \E t1, t2 \in Threads :
         /\ tpc[t1] = "idle" /\ tret[t1] = Raised("u1")
         /\ tpc[t2] = "idle" /\ tret[t2] = 1

\* C39: no interleaving of get_agent, remove_agent, close_all and
\* get_active_user_count calls deadlocks.  Every call a thread has made
\* returns (or raises) in the end, the lock is held only by a thread inside
\* a pool method, and it is free whenever no call is in progress.
C39_NoDeadlock ==
    /\ [](/\ lock /= "free" => tpc[lock] \notin {"idle", "acquire"}
          /\ (\A t \in Threads : tpc[t] = "idle") => lock = "free")
    /\ \A t \in Threads : (tpc[t] /= "idle") ~> (tpc[t] = "idle")

\* A thread waits for the lock while another, inside close_all, holds it
\* with one session closed; the third made the get_agent call before.
C39_Witness ==
    /\ calls = 3
    /\ tpc["t1"] = "ca_loop" /\ lock = "t1" /\ tloc["t1"] /= {}
    /\ tpc["t2"] = "acquire" /\ top["t2"].kind = "count"
    /\ tpc["t3"] = "idle" /\ tret["t3"] /= 0

\* C40: a single-agent streaming turn that returned after storing the user
\* message has stored exactly one assistant reply after it.  (Violated: when
\* the model asks for tools in all five passes, or streams an empty reply,
\* nothing is stored after the user message.)
C40_ReplyStoredAfterUserMessage ==
    (single.pc = "returned" /\ single.user_saved) =>
        /\ Len(db.messages) = 2
        /\ db.messages[1] = [user_id |-> "u1", role |-> "user",
                             content |-> single.user_message, created_at |-> db.now]
        /\ db.messages[2].role = "assistant"

\* The turn makes at most max_iterations = 5 tool-deciding generation calls,
\* and stores at most one assistant reply, after the user message.
C40_AtMostFiveGenerations ==
    /\ single.generations <= max_iterations
    /\ single.generations = single.iteration
    /\ single.pc = "loop" => single.iteration < max_iterations
    /\ Len(db.messages) <= 2
    /\ Len(db.messages) = 2 => db.messages[1].role = "user" /\ db.messages[2].role = "assistant"

====
